---- MODULE Spec2Model ----
(***************************************************************************)
(* A model of spdx-to-dep5: the year model and century disambiguation      *)
(* (raw_year), the copyright statement parser (copyright_parsing), and the *)
(* copyright data tree with its paragraph emission (tree).                 *)
(*                                                                         *)
(* Text is a sequence of one-character strings, so that the parser, the    *)
(* path handling and the rendering work on characters as the code does.    *)
(* Option<T> is a sequence of length at most one: None is << >>, Some(x)   *)
(* is <<x>>.                                                               *)
(***************************************************************************)
EXTENDS Integers, Sequences, FiniteSets, TLC

VARIABLES
    pc,                 \* position of the run in the specification at hand
    options,            \* YearRangeNormalization passed to the parse / normalization
    raw_range,          \* (begin, end) pair of YearExpr handed to normalization
    normalized,         \* Option<(FourDigitYear, FourDigitYear)> from try_to_four_digit_range
    year_spec_result,   \* outcome of the configured year_spec closure on raw_range
    input_lines,        \* the lines the statement was written from (indices of LineForms)
    statement,          \* the text handed to Copyright::try_parse
    line_results,       \* all_consuming(copyright_line) on each line of the statement alone
    parsed,             \* outcome of Copyright::try_parse on the statement
    prefix_input,       \* a prefix, the whitespace after it and the rest of a line
    bare_line,          \* all_consuming(copyright_line) on the line without the prefix
    prefixed_line,      \* all_consuming(copyright_line) on the line with the prefix
    file_records,       \* the FileInformation records the tree is built from, in order
    consumed,           \* how many of them have been accumulated
    cdt,                \* the CopyrightDataTree: tree_arena, root, metadata table
    grouped,            \* the chunks make_paragraphs formed: key and node ids of each
    paras,              \* the FilesParagraphs make_paragraphs returned
    raw_year,           \* the YearExpr handed to to_four_digit
    century_hint,       \* the century handed to to_four_digit_with_century_hint
    coerced,            \* Option: the result of to_four_digit
    coerced_with_hint,  \* Option: the result of to_four_digit_with_century_hint
    contain_texts,      \* the two texts parsed into the statements that are compared
    contain_self,       \* Option: the statement whose contains is called
    contain_other,      \* Option: the statement passed to contains
    contained,          \* Option: the result of contain_self.contains(contain_other)
    years_heap,         \* YearRangeCollection: the ranges pushed so far, in the order of the pushes
    range_seq,          \* the sequence of ranges handed to coalesce_years
    coalesced_vec,      \* Option: the result of into_coalesced_vec
    coalesced_once,     \* Option: coalesce_years(range_seq)
    coalesced_twice,    \* Option: coalesce_years of coalesced_once
    atom_table,         \* the interning table
    atom_before,        \* the table as it was when the last call was made
    atom_seen,          \* the values handed to get_or_create so far
    atom_value,         \* Option: the value of the last get_or_create call
    atom_id,            \* Option: the id the last get_or_create call returned
    atom_f,             \* Option: the mapping handed to transform
    transformed,        \* Option: what transform came to, a table or a panic
    summ_cdt,           \* the data tree whose interned metadata the summarizer reads
    summ_decomposed,    \* Option: what perform_copyright_decomposition came to
    summ_ids,           \* the metadata ids handed to SubtreeSummarizer::accumulate so far
    summarizer,         \* the SubtreeSummarizer
    summ_results,       \* Option: what into_results came to
    written_specs,      \* the year specifiers of a line as written, each with its raw pair
    written_line,       \* the line: the specifiers, a comma, the holder
    written_parsed,     \* Option: what Copyright::try_parse came to on the line
    trans_texts,        \* three statements as text
    trans_parsed,       \* what Copyright::try_parse gave for each of the three
    trans_contains      \* the answers of Copyright::contains for the pairs (a, b), (b, c), (a, c)

yearVars == <<raw_range, normalized, year_spec_result>>

parseVars == <<input_lines, statement, line_results, parsed>>

prefixVars == <<prefix_input, bare_line, prefixed_line>>

treeVars == <<file_records, consumed, cdt, grouped, paras>>

coerceVars == <<raw_year, century_hint, coerced, coerced_with_hint>>

containVars == <<contain_texts, contain_self, contain_other, contained>>

coalesceVars == <<years_heap, range_seq, coalesced_vec, coalesced_once, coalesced_twice>>

atomVars == <<atom_table, atom_before, atom_seen, atom_value, atom_id, atom_f, transformed>>

summVars == <<summ_cdt, summ_decomposed, summ_ids, summarizer, summ_results>>

writtenVars == <<written_specs, written_line, written_parsed>>

transVars == <<trans_texts, trans_parsed, trans_contains>>

vars ==
    <<pc, options, yearVars, parseVars, prefixVars, treeVars, coerceVars, containVars, coalesceVars, atomVars, summVars, writtenVars,
      transVars>>

None == << >>

Some(x) == <<x>>

(***************************************************************************)
(* raw_year/util.rs: operations on bare integer years                      *)
(***************************************************************************)
CENTURY_DURATION == 100

\* Variant of guess_century with the threshold one year later
guess_century_through_60(two_digit_year) == IF two_digit_year <= 60 THEN 21 ELSE 20

guess_century(two_digit_year) == IF two_digit_year < 60 THEN 21 ELSE 20

compose_year(century, two_digit) == (century - 1) * CENTURY_DURATION + two_digit

guess_four_digit_from_two_digit(two_digit) ==
    compose_year(guess_century(two_digit), two_digit)

get_century(year) == (year \div CENTURY_DURATION) + 1

get_two_digit_year(year) == year % CENTURY_DURATION

(***************************************************************************)
(* raw_year/types.rs: YearExpr and the RawYear operations                  *)
(***************************************************************************)
TwoDigit(y) == [kind |-> "TwoDigit", y |-> y]

FourDigit(y) == [kind |-> "FourDigit", y |-> y]

\* RawYear::two_digit: the least significant two digits
two_digit(ye) == IF ye.kind = "TwoDigit" THEN ye.y ELSE get_two_digit_year(ye.y)

\* RawYear::to_four_digit: the default heuristic for a two-digit year
to_four_digit(ye) ==
    IF ye.kind = "TwoDigit" THEN guess_four_digit_from_two_digit(ye.y) ELSE ye.y

\* Variant of to_four_digit_with_century_hint that applies the hint to every year
to_four_digit_with_century_hint_always(ye, century) ==
    compose_year(century, two_digit(ye))

\* RawYear::to_four_digit_with_century_hint
to_four_digit_with_century_hint(ye, century) ==
    IF ye.kind = "TwoDigit" THEN compose_year(century, ye.y) ELSE ye.y

\* The three independent flags of YearRangeNormalization
AllOptions ==
    [allow_century_guess : BOOLEAN,
     allow_assuming_y2k_span : BOOLEAN,
     allow_mixed_size_implied_century_rollover : BOOLEAN]

DefaultOptions ==
    [allow_century_guess |-> FALSE,
     allow_assuming_y2k_span |-> FALSE,
     allow_mixed_size_implied_century_rollover |-> FALSE]

\* ConfigurableRawYearRange for (FourDigitYear, FourDigitYear): b, e are the inner numbers
try_to_four_digit_range_44(b, e, opts) == Some(<<b, e>>)

\* Variant of try_to_four_digit_range_22 that gates the Y2K span on the century-guess flag
try_to_four_digit_range_22_one_flag(b, e, opts) ==
    IF b <= e
    THEN IF opts.allow_century_guess
         THEN LET b4 == guess_four_digit_from_two_digit(b)
                  e4 == compose_year(get_century(b4), e)
              IN  Some(<<b4, e4>>)
         ELSE None
    ELSE IF opts.allow_century_guess
         THEN Some(<<compose_year(20, b), compose_year(21, e)>>)
         ELSE None

\* ConfigurableRawYearRange for (TwoDigitYear, TwoDigitYear)
try_to_four_digit_range_22(b, e, opts) ==
    IF b <= e
    THEN IF opts.allow_century_guess
         THEN LET b4 == guess_four_digit_from_two_digit(b)
                  e4 == compose_year(get_century(b4), e)
              IN  Some(<<b4, e4>>)
         ELSE None
    ELSE IF opts.allow_assuming_y2k_span
         THEN Some(<<compose_year(20, b), compose_year(21, e)>>)
         ELSE None

\* Variant of try_to_four_digit_range_42 comparing the tails strictly
try_to_four_digit_range_42_strict(b, e, opts) ==
    IF get_two_digit_year(b) < e
    THEN Some(<<b, compose_year(get_century(b), e)>>)
    ELSE IF opts.allow_mixed_size_implied_century_rollover
         THEN Some(<<b, compose_year(get_century(b) + 1, e)>>)
         ELSE None

\* ConfigurableRawYearRange for (FourDigitYear, TwoDigitYear)
try_to_four_digit_range_42(b, e, opts) ==
    IF get_two_digit_year(b) <= e
    THEN Some(<<b, compose_year(get_century(b), e)>>)
    ELSE IF opts.allow_mixed_size_implied_century_rollover
         THEN Some(<<b, compose_year(get_century(b) + 1, e)>>)
         ELSE None

\* ConfigurableRawYearRange for (TwoDigitYear, FourDigitYear)
try_to_four_digit_range_24(b, e, opts) ==
    IF b <= get_two_digit_year(e)
    THEN Some(<<compose_year(get_century(e), b), e>>)
    ELSE IF opts.allow_mixed_size_implied_century_rollover
         THEN Some(<<compose_year(get_century(e) - 1, b), e>>)
         ELSE None

\* ConfigurableRawYearRange for (YearExpr, YearExpr): unwrap the enum and dispatch
try_to_four_digit_range(range, opts) ==
    LET b == range[1]
        e == range[2]
    IN  CASE b.kind = "TwoDigit" /\ e.kind = "TwoDigit" ->
                try_to_four_digit_range_22(b.y, e.y, opts)
          [] b.kind = "TwoDigit" /\ e.kind = "FourDigit" ->
                try_to_four_digit_range_24(b.y, e.y, opts)
          [] b.kind = "FourDigit" /\ e.kind = "TwoDigit" ->
                try_to_four_digit_range_42(b.y, e.y, opts)
          [] OTHER ->
                try_to_four_digit_range_44(b.y, e.y, opts)

(***************************************************************************)
(* years.rs: Year, YearRange, YearSpec                                     *)
(***************************************************************************)
SingleYear(y) == [kind |-> "SingleYear", begin |-> y, end |-> y]

ClosedRange(b, e) == [kind |-> "ClosedRange", begin |-> b, end |-> e]

\* Outcomes of a parsing step: "ok" with a value, "err" (a nom error, recoverable
\* by an enclosing alternative), or "panic" (a failed assertion: the run aborts).
Ok(v) == [status |-> "ok", val |-> v]

Err == [status |-> "err", val |-> << >>]

Panic == [status |-> "panic", val |-> << >>]

\* YearRange::new asserts begin <= end
YearRange_new(begin, end) ==
    IF begin <= end THEN Ok(ClosedRange(begin, end)) ELSE Panic

\* Variant of the closure that sends every pair, equal or not, through the
\* range normalization
year_spec_of_raw_by_range(range, opts) ==
    LET Range(r) == IF r = None THEN Err ELSE YearRange_new(r[1][1], r[1][2])
    IN  Range(try_to_four_digit_range(range, opts))

\* The closure of the configured year_spec: map_opt over the raw (begin, end) pair
year_spec_of_raw(range, opts) ==
    LET Range(r) == IF r = None THEN Err ELSE YearRange_new(r[1][1], r[1][2])
    IN  IF range[1] = range[2]
        THEN Ok(SingleYear(to_four_digit(range[1])))
        ELSE Range(try_to_four_digit_range(range, opts))

(***************************************************************************)
(* Characters and the nom primitives used by the parsers.  A parser takes  *)
(* the text s and a position p (1 .. Len(s) + 1) and yields a result with  *)
(* the position after what it consumed.                                    *)
(***************************************************************************)
POk(pos, v) == [status |-> "ok", pos |-> pos, val |-> v]

PErr == [status |-> "err", pos |-> 0, val |-> << >>]

PPanic == [status |-> "panic", pos |-> 0, val |-> << >>]

UpperChars == <<"A", "B", "C", "D", "E", "F", "G", "H", "I", "J", "K", "L", "M", "N", "O", "P", "Q", "R", "S", "T", "U", "V", "W", "X", "Y", "Z">>

LowerChars == <<"a", "b", "c", "d", "e", "f", "g", "h", "i", "j", "k", "l", "m", "n", "o", "p", "q", "r", "s", "t", "u", "v", "w", "x", "y", "z">>

DigitChars == <<"0", "1", "2", "3", "4", "5", "6", "7", "8", "9">>

\* char::to_lowercase on the ASCII letters (tag_no_case compares case-insensitively)
Lower(c) ==
    IF \E i \in 1..Len(UpperChars) : UpperChars[i] = c
    THEN LowerChars[CHOOSE i \in 1..Len(UpperChars) : UpperChars[i] = c]
    ELSE c

IsDigit(c) == \E i \in 1..Len(DigitChars) : DigitChars[i] = c

DigitVal(c) == (CHOOSE i \in 1..Len(DigitChars) : DigitChars[i] = c) - 1

\* nom space0 / space1 take spaces and tabs
IsSpace(c) == c \in {" ", "\t"}

\* nom multispace0 takes spaces, tabs, carriage returns and line feeds
IsMultispace(c) == c \in {" ", "\t", "\r", "\n"}

RECURSIVE space0(_, _)
space0(s, p) == IF p <= Len(s) /\ IsSpace(s[p]) THEN space0(s, p + 1) ELSE p

RECURSIVE multispace0(_, _)
multispace0(s, p) ==
    IF p <= Len(s) /\ IsMultispace(s[p]) THEN multispace0(s, p + 1) ELSE p

tag(s, p, t) ==
    /\ p + Len(t) - 1 <= Len(s)
    /\ \A i \in 1..Len(t) : s[p + i - 1] = t[i]

tag_no_case(s, p, t) ==
    /\ p + Len(t) - 1 <= Len(s)
    /\ \A i \in 1..Len(t) : Lower(s[p + i - 1]) = Lower(t[i])

\* str::trim
IsWhitespace(c) == c \in {" ", "\t", "\r", "\n"}

RECURSIVE trim_start(_)
trim_start(t) ==
    IF Len(t) > 0 /\ IsWhitespace(t[1]) THEN trim_start(Tail(t)) ELSE t

RECURSIVE trim_end(_)
trim_end(t) ==
    IF Len(t) > 0 /\ IsWhitespace(t[Len(t)])
    THEN trim_end(SubSeq(t, 1, Len(t) - 1))
    ELSE t

trim(t) == trim_end(trim_start(t))

(***************************************************************************)
(* raw_year/parse.rs: years and year ranges as written                     *)
(***************************************************************************)
digit(s, p) == p <= Len(s) /\ IsDigit(s[p])

century(s, p) == tag(s, p, <<"1", "9">>) \/ tag(s, p, <<"2", "0">>)

four_digit_year(s, p) ==
    IF century(s, p) /\ digit(s, p + 2) /\ digit(s, p + 3)
    THEN POk(p + 4, FourDigit(1000 * DigitVal(s[p]) + 100 * DigitVal(s[p + 1])
                              + 10 * DigitVal(s[p + 2]) + DigitVal(s[p + 3])))
    ELSE PErr

two_digit_year(s, p) ==
    IF digit(s, p) /\ digit(s, p + 1)
    THEN POk(p + 2, TwoDigit(10 * DigitVal(s[p]) + DigitVal(s[p + 1])))
    ELSE PErr

year(s, p) ==
    LET Alt(f) == IF f.status = "ok" THEN f ELSE two_digit_year(s, p)
    IN  Alt(four_digit_year(s, p))

range_delim(s, p) ==
    LET Dash(q) ==
            IF q <= Len(s) /\ s[q] = "-" THEN POk(space0(s, q + 1), << >>) ELSE PErr
    IN  Dash(space0(s, p))

\* The year parser of the given width: four_digit_year or two_digit_year
year_of_width(w, s, p) ==
    IF w = 4 THEN four_digit_year(s, p) ELSE two_digit_year(s, p)

\* separated_pair(first, range_delim, second), for years of the given widths
year_range_pair(first, second, s, p) ==
    LET Pair(b, e) == IF e.status # "ok" THEN PErr ELSE POk(e.pos, <<b.val, e.val>>)
        Second(b, d) ==
            IF d.status # "ok" THEN PErr
            ELSE Pair(b, year_of_width(second, s, d.pos))
        First(b) == IF b.status # "ok" THEN PErr ELSE Second(b, range_delim(s, b.pos))
    IN  First(year_of_width(first, s, p))

year_range_44(s, p) == year_range_pair(4, 4, s, p)

year_range_42(s, p) == year_range_pair(4, 2, s, p)

year_range_24(s, p) == year_range_pair(2, 4, s, p)

year_range_22(s, p) == year_range_pair(2, 2, s, p)

year_range(s, p) ==
    LET Alt(r44, r42, r24) ==
            IF r44.status = "ok" THEN r44
            ELSE IF r42.status = "ok" THEN r42
            ELSE IF r24.status = "ok" THEN r24
            ELSE year_range_22(s, p)
    IN  Alt(year_range_44(s, p), year_range_42(s, p), year_range_24(s, p))

\* raw_year::parse::year_spec: a range first, failing that a single year (y, y)
parse_year_spec(s, p) ==
    LET Alt(r, y) ==
            IF r.status = "ok" THEN r
            ELSE IF y.status = "ok" THEN POk(y.pos, <<y.val, y.val>>)
            ELSE PErr
        At(q) == Alt(year_range(s, q), year(s, q))
    IN  At(space0(s, p))

(***************************************************************************)
(* copyright.rs: DecomposedCopyright and Copyright                         *)
(***************************************************************************)
\* DecomposedCopyright::new trims the holder
DecomposedCopyright_new(years, holder) == [years |-> years, holder |-> trim(holder)]

Decomposable(d) == [kind |-> "Decomposable", lines |-> <<d>>, text |-> << >>]

MultilineDecomposable(v) == [kind |-> "MultilineDecomposable", lines |-> v, text |-> << >>]

Complex(t) == [kind |-> "Complex", lines |-> << >>, text |-> t]

(***************************************************************************)
(* copyright_parsing.rs: the grammar of a line and of a statement          *)
(***************************************************************************)
\* year_spec: leading spaces, then the raw specifier normalized under the options
year_spec(s, p, opts) ==
    LET Mapped(r, v) ==
            CASE v.status = "ok" -> POk(r.pos, v.val)
              [] v.status = "err" -> PErr
              [] OTHER -> PPanic
        Raw(r) ==
            IF r.status # "ok" THEN PErr ELSE Mapped(r, year_spec_of_raw(r.val, opts))
    IN  Raw(parse_year_spec(s, space0(s, p)))

\* The separator of year_spec_vec: a comma with optional spaces around it, or spaces
year_list_separator(s, p) ==
    LET Comma(q) ==
            IF q <= Len(s) /\ s[q] = "," THEN POk(space0(s, q + 1), << >>)
            ELSE IF q > p THEN POk(q, << >>)
            ELSE PErr
    IN  Comma(space0(s, p))

\* One more round of separated_list1: the separator, then an element
year_spec_vec_next(s, p, opts) ==
    LET Element(sep) == IF sep.status # "ok" THEN PErr ELSE year_spec(s, sep.pos, opts)
    IN  Element(year_list_separator(s, p))

\* The loop of separated_list1: a failing separator or element ends the list
\* where the last element ended
RECURSIVE year_spec_vec_rest(_, _, _, _)
year_spec_vec_rest(s, p, acc, opts) ==
    LET Step(y) ==
            CASE y.status = "err" -> POk(p, acc)
              [] y.status = "panic" -> PPanic
              [] OTHER -> year_spec_vec_rest(s, y.pos, Append(acc, y.val), opts)
    IN  Step(year_spec_vec_next(s, p, opts))

year_spec_vec(s, p, opts) ==
    LET First(y) ==
            IF y.status # "ok" THEN y ELSE year_spec_vec_rest(s, y.pos, <<y.val>>, opts)
    IN  First(year_spec(s, p, opts))

TagCopyright == <<"c", "o", "p", "y", "r", "i", "g", "h", "t">>

TagCopyrightC == <<"c", "o", "p", "y", "r", "i", "g", "h", "t", " ", "(", "C", ")">>

TagCopr == <<"c", "o", "p", "r">>

\* copyright_prefix: opt((multispace0, alt(tags in this order), multispace0));
\* yields the position after the prefix, or p when there is none
copyright_prefix(s, p) ==
    LET Alt(q) ==
            IF tag_no_case(s, q, TagCopyright)
            THEN multispace0(s, q + Len(TagCopyright))
            ELSE IF tag_no_case(s, q, TagCopyrightC)
            THEN multispace0(s, q + Len(TagCopyrightC))
            ELSE IF tag_no_case(s, q, TagCopr)
            THEN multispace0(s, q + Len(TagCopr))
            ELSE p
    IN  Alt(multispace0(s, p))

\* The mandatory separator between the years and the holder
holder_separator(s, p) ==
    LET Comma(q) ==
            IF q <= Len(s) /\ s[q] = "," THEN POk(space0(s, q + 1), << >>) ELSE PErr
    IN  Comma(space0(s, p))

RECURSIVE line_ending_at(_, _)
line_ending_at(s, p) ==
    IF p <= Len(s) /\ s[p] \notin {"\r", "\n"} THEN line_ending_at(s, p + 1) ELSE p

\* nom not_line_ending: up to "\n" or "\r\n"; a lone "\r" is an error
not_line_ending(s, p) ==
    LET UpTo(i) ==
            IF i <= Len(s) /\ s[i] = "\r" /\ ~tag(s, i, <<"\r", "\n">>)
            THEN PErr
            ELSE POk(i, SubSeq(s, p, i - 1))
    IN  UpTo(line_ending_at(s, p))

copyright_line(s, p, opts) ==
    LET Holder(ys, h) ==
            IF h.status # "ok" THEN PErr
            ELSE POk(h.pos, DecomposedCopyright_new(ys.val, h.val))
        Separator(ys, sep) ==
            IF sep.status # "ok" THEN PErr ELSE Holder(ys, not_line_ending(s, sep.pos))
        Years(ys) ==
            IF ys.status # "ok" THEN ys ELSE Separator(ys, holder_separator(s, ys.pos))
    IN  Years(year_spec_vec(s, copyright_prefix(s, p), opts))

\* The loop of many1(terminated(copyright_line, multispace0))
RECURSIVE many1_lines_rest(_, _, _, _)
many1_lines_rest(s, p, acc, opts) ==
    LET Step(l) ==
            CASE l.status = "err" -> POk(p, acc)
              [] l.status = "panic" -> PPanic
              [] OTHER -> many1_lines_rest(s, multispace0(s, l.pos),
                                           Append(acc, l.val), opts)
    IN  Step(copyright_line(s, p, opts))

many1_lines(s, p, opts) ==
    LET First(l) ==
            IF l.status # "ok" THEN l
            ELSE many1_lines_rest(s, multispace0(s, l.pos), <<l.val>>, opts)
    IN  First(copyright_line(s, p, opts))

\* The variant chosen from the lines many1 collected
lines_to_copyright(parsed_lines) ==
    IF Len(parsed_lines) = 1
    THEN Decomposable(parsed_lines[1])
    ELSE MultilineDecomposable(parsed_lines)

\* copyright_lines: alt of (1) one or more lines, (2) one line up to the end of
\* the input, (3) anything, kept as the trimmed text
copyright_lines(s, opts) ==
    LET Alt(many, one) ==
            CASE many.status = "ok" -> POk(many.pos, lines_to_copyright(many.val))
              [] many.status = "panic" -> PPanic
              [] one.status = "ok" /\ multispace0(s, one.pos) = Len(s) + 1 ->
                    POk(Len(s) + 1, Decomposable(one.val))
              [] one.status = "panic" -> PPanic
              [] OTHER ->
                    POk(Len(s) + 1, Complex(trim(SubSeq(s, multispace0(s, 1), Len(s)))))
    IN  Alt(many1_lines(s, 1, opts), copyright_line(s, 1, opts))

\* Copyright::try_parse: the parsed statement, the leftover dropped
try_parse(opts, statement_text) ==
    LET Finish(r) ==
            CASE r.status = "ok" -> Ok(r.val)
              [] r.status = "panic" -> Panic
              [] OTHER -> Err
    IN  Finish(copyright_lines(statement_text, opts))

(***************************************************************************)
(* Strings as the tree and the cleanup use them                            *)
(***************************************************************************)
\* The characters of the model in byte order
Ascii ==
    <<"\t", "\n", "\r", " ", "\"", "'", "(", ")", "*", ",", "-", ".", "/">>
        \o DigitChars \o <<":", ";", "?">> \o UpperChars \o <<"\\">> \o LowerChars

\* Ord for str: a < b in byte-wise lexicographic order
StrLess(a, b) ==
    LET Code(c) == CHOOSE i \in 1..Len(Ascii) : Ascii[i] = c
        Least(D) == CHOOSE i \in D : \A j \in D : i <= j
        Cmp(D) ==
            IF D = {} THEN Len(a) < Len(b)
            ELSE Code(a[Least(D)]) < Code(b[Least(D)])
    IN  Cmp({i \in 1..Len(a) : i <= Len(b) /\ a[i] # b[i]})

\* Itertools::sorted / sorted_unstable on strings
RECURSIVE sorted(_)
sorted(v) ==
    LET Insert(x, rest) ==
            LET At(k) == SubSeq(rest, 1, k) \o <<x>> \o SubSeq(rest, k + 1, Len(rest))
            IN  At(Cardinality({i \in 1..Len(rest) : StrLess(rest[i], x)}))
    IN  IF Len(v) <= 1 THEN v ELSE Insert(v[1], sorted(Tail(v)))

\* Itertools::join
RECURSIVE join(_, _)
join(parts, sep) ==
    IF parts = << >> THEN << >>
    ELSE IF Len(parts) = 1 THEN parts[1]
    ELSE parts[1] \o sep \o join(Tail(parts), sep)

\* str::split on a character
RECURSIVE split(_, _)
split(s, ch) ==
    LET Least(D) == CHOOSE i \in D : \A j \in D : i <= j
        Cut(k) == <<SubSeq(s, 1, k - 1)>> \o split(SubSeq(s, k + 1, Len(s)), ch)
        At(D) == IF D = {} THEN <<s>> ELSE Cut(Least(D))
    IN  At({i \in 1..Len(s) : s[i] = ch})

\* str::replace: every non-overlapping occurrence, left to right
RECURSIVE replace(_, _, _)
replace(s, from, to) ==
    IF s = << >> THEN << >>
    ELSE IF tag(s, 1, from)
    THEN to \o replace(SubSeq(s, Len(from) + 1, Len(s)), from, to)
    ELSE <<s[1]>> \o replace(Tail(s), from, to)

\* str::trim_start_matches: the prefix taken off as often as it occurs
RECURSIVE trim_start_matches(_, _)
trim_start_matches(s, pat) ==
    IF tag(s, 1, pat)
    THEN trim_start_matches(SubSeq(s, Len(pat) + 1, Len(s)), pat)
    ELSE s

\* Display for u16
RECURSIVE u16_to_string(_)
u16_to_string(n) ==
    IF n < 10 THEN <<DigitChars[n + 1]>>
    ELSE u16_to_string(n \div 10) \o <<DigitChars[(n % 10) + 1]>>

(***************************************************************************)
(* cleanup.rs                                                              *)
(***************************************************************************)
strip_prefix_if_present(s, prefix) ==
    IF tag(s, 1, prefix) THEN trim(SubSeq(s, Len(prefix) + 1, Len(s))) ELSE s

strip_suffix_if_present(s, suffix) ==
    IF Len(suffix) <= Len(s) /\ tag(s, Len(s) - Len(suffix) + 1, suffix)
    THEN trim(SubSeq(s, 1, Len(s) - Len(suffix)))
    ELSE s

\* Regex::replace with "(SPDX-License-Identifier:.*|(\n|,|')+|.*;;;;;;;;;;;;;)$":
\* the leftmost match runs to the end of the line and is taken off
strip_match_if_present(s) ==
    LET Identifier ==
            <<"S", "P", "D", "X", "-", "L", "i", "c", "e", "n", "s", "e", "-",
              "I", "d", "e", "n", "t", "i", "f", "i", "e", "r", ":">>
        Semicolons == [i \in 1..13 |-> ";"]
        Run(i) == \A j \in i..Len(s) : s[j] \in {"\n", ",", "'"}
        Least(D) == CHOOSE i \in D : \A j \in D : i <= j
        Cut(D) == IF D = {} THEN s ELSE SubSeq(s, 1, Least(D) - 1)
    IN  IF Len(s) >= 13 /\ tag(s, Len(s) - 12, Semicolons) THEN << >>
        ELSE Cut({i \in 1..Len(s) : tag(s, i, Identifier) \/ Run(i)})

\* Itertools::dedup: consecutive equal elements collapse to one
RECURSIVE dedup(_)
dedup(v) ==
    IF Len(v) <= 1 THEN v
    ELSE IF v[1] = v[2] THEN dedup(Tail(v))
    ELSE <<v[1]>> \o dedup(Tail(v))

\* cleanup_copyright_text: the cleaned, sorted, deduplicated lines of the text
cleanup_copyright_text(text) ==
    LET Prefixes(l) ==
            strip_prefix_if_present(strip_prefix_if_present(
                strip_prefix_if_present(strip_prefix_if_present(
                    strip_prefix_if_present(strip_prefix_if_present(trim(l),
                        <<"S", "P", "D", "X", "-", "F", "i", "l", "e", "C", "o", "p", "y",
                          "r", "i", "g", "h", "t", "T", "e", "x", "t", ":">>),
                        <<"C", "o", "p", "y", "r", "i", "g", "h", "t">>),
                    <<":">>),
                    <<"C", "o", "p", "y", "r", "i", "g", "h", "t">>),
                <<"(", "c", ")">>),
                <<"(", "C", ")">>)
        Line(l) ==
            strip_match_if_present(strip_suffix_if_present(strip_suffix_if_present(
                strip_suffix_if_present(Prefixes(l), <<"'">>), <<"\"">>), <<"\\", "n">>))
        NonEmpty(l) == l # << >>
        Lines(ls) == sorted(SelectSeq([i \in 1..Len(ls) |-> Line(ls[i])], NonEmpty))
    IN  IF text = None THEN << >> ELSE dedup(Lines(split(text[1], "\n")))

licenses_spdx_to_debian(text) ==
    replace(replace(text, <<"M", "I", "T">>, <<"E", "x", "p", "a", "t">>),
            <<"B", "S", "D", "-", "3", "-", "C", "l", "a", "u", "s", "e">>,
            <<"B", "S", "D", "-", "3", "-", "c", "l", "a", "u", "s", "e">>)

(***************************************************************************)
(* atom_table.rs: values interned to dense ids, counted from 0             *)
(***************************************************************************)
AtomTable_default == [vec |-> << >>, map |-> << >>]

\* Variant of get_or_create_id_for_owned_value that never looks the value up
get_or_create_id_always_new(table, value) ==
    [table |-> [vec |-> Append(table.vec, value),
                map |-> (value :> Len(table.vec)) @@ table.map],
     id |-> Len(table.vec)]

\* AtomTable::get_or_create_id_for_owned_value: the table afterwards and the id
get_or_create_id_for_owned_value(table, value) ==
    IF value \in DOMAIN table.map
    THEN [table |-> table, id |-> table.map[value]]
    ELSE [table |-> [vec |-> Append(table.vec, value),
                     map |-> (value :> Len(table.vec)) @@ table.map],
          id |-> Len(table.vec)]

\* AtomTable::get
AtomTable_get(table, id) ==
    IF id < Len(table.vec) THEN Some(table.vec[id + 1]) ELSE None

\* AtomTable::get_or_create_id: as above, the value cloned instead of moved
get_or_create_id(table, value) ==
    IF value \in DOMAIN table.map
    THEN [table |-> table, id |-> table.map[value]]
    ELSE [table |-> [vec |-> Append(table.vec, value),
                     map |-> (value :> Len(table.vec)) @@ table.map],
          id |-> Len(table.vec)]

\* AtomTable::get_id
get_id(table, value) ==
    IF value \in DOMAIN table.map THEN Some(table.map[value]) ELSE None

\* AtomTable::get_value
get_value(table, id) ==
    IF id < Len(table.vec) THEN Some(table.vec[id + 1]) ELSE None

\* Variant of try_transform that lets a later id take over an output value
try_transform_unchecked(table, f) ==
    LET RECURSIVE Loop(_, _, _)
        Loop(k, vec, map) ==
            IF k > Len(table.vec) THEN Ok([vec |-> vec, map |-> map])
            ELSE IF f[table.vec[k]].status # "ok" THEN Err
            ELSE Loop(k + 1, Append(vec, f[table.vec[k]].val),
                      (f[table.vec[k]].val :> (k - 1)) @@ map)
    IN  Loop(1, << >>, << >>)

\* AtomTable::try_transform: f gives a result for each value; the new table takes
\* the values in the order of the ids, and the assertion on map.insert panics
\* when an output value already has an id
try_transform(table, f) ==
    LET RECURSIVE Loop(_, _, _)
        Loop(k, vec, map) ==
            IF k > Len(table.vec) THEN Ok([vec |-> vec, map |-> map])
            ELSE IF f[table.vec[k]].status # "ok" THEN Err
            ELSE IF f[table.vec[k]].val \in DOMAIN map THEN Panic
            ELSE Loop(k + 1, Append(vec, f[table.vec[k]].val),
                      (f[table.vec[k]].val :> (k - 1)) @@ map)
    IN  Loop(1, << >>, << >>)

\* AtomTable::transform: try_transform with f wrapped in Ok, and expect
transform(table, f) ==
    LET Expect(r) == IF r.status = "ok" THEN r ELSE Panic
    IN  Expect(try_transform(table, [v \in DOMAIN f |-> Ok(f[v])]))

(***************************************************************************)
(* tree.rs: the copyright data tree.  The arena is a sequence of nodes, a  *)
(* NodeId is a position in it; a node keeps its element (path segment and  *)
(* metadata id), its parent and its children in the order of appending.    *)
(***************************************************************************)
Metadata(copyright_text, license) ==
    [copyright_text |-> copyright_text, license |-> license]

\* arena.new_node(Element::new(path_segment)), not yet appended anywhere
Element_new(path_segment) ==
    [path_segment |-> path_segment, metadata |-> None, parent |-> None, children |-> << >>]

\* CopyrightDataTree::new: the root "." is the first node of the arena
CopyrightDataTree_new ==
    [tree_arena |-> <<Element_new(<<".">>)>>, root |-> 1, metadata |-> AtomTable_default]

\* Variant of get_or_insert_child that appends a new child without searching
get_or_insert_child_always_new(arena, parent_node_id, path_segment) ==
    [arena |-> Append([arena EXCEPT ![parent_node_id].children = Append(@, Len(arena) + 1)],
                      [Element_new(path_segment) EXCEPT !.parent = Some(parent_node_id)]),
     id |-> Len(arena) + 1]

\* get_or_insert_child with the predicate and factory of find_or_create_node:
\* the first child with this path segment, or a new node appended as last child
get_or_insert_child(arena, parent_node_id, path_segment) ==
    LET Least(D) == CHOOSE i \in D : \A j \in D : i <= j
        kids == arena[parent_node_id].children
        Created(new_id) ==
            [arena |-> Append([arena EXCEPT ![parent_node_id].children = Append(@, new_id)],
                              [Element_new(path_segment) EXCEPT
                                   !.parent = Some(parent_node_id)]),
             id |-> new_id]
        Find(D) ==
            IF D # {} THEN [arena |-> arena, id |-> kids[Least(D)]]
            ELSE Created(Len(arena) + 1)
    IN  Find({k \in 1..Len(kids) : arena[kids[k]].path_segment = path_segment})

\* find_or_create_node: fold get_or_insert_child over the segments of the path
find_or_create_node(arena, root, path) ==
    LET RECURSIVE Fold(_, _)
        Fold(at, segments) ==
            IF segments = << >> THEN at
            ELSE Fold(get_or_insert_child(at.arena, at.id, segments[1]), Tail(segments))
    IN  Fold([arena |-> arena, id |-> root], split(path, "/"))

\* Variant of get_common_child_metadata_id_if_any that returns the metadata id of
\* the first child, whatever the other children carry
get_common_child_metadata_id_of_first(arena, id) ==
    IF arena[id].children = << >> THEN None
    ELSE arena[arena[id].children[1]].metadata

\* If all the direct children of id share the same Some(metadata_id), return it
get_common_child_metadata_id_if_any(arena, id) ==
    LET kids == arena[id].children
        First(first) ==
            IF first # None /\ \A k \in 1..Len(kids) : arena[kids[k]].metadata = first
            THEN first
            ELSE None
    IN  IF kids = << >> THEN None ELSE First(arena[kids[1]].metadata)

\* get_path: the path segments from the root down to the node, joined by "/"
get_path(arena, id) ==
    LET RECURSIVE Ancestors(_)
        Ancestors(n) ==
            IF arena[n].parent = None THEN <<arena[n].path_segment>>
            ELSE Append(Ancestors(arena[n].parent[1]), arena[n].path_segment)
    IN  join(Ancestors(id), <<"/">>)

\* get_pattern: a directory (a node with children) gets a trailing "/*"
get_pattern(arena, id) ==
    IF Len(arena[id].children) > 0
    THEN get_path(arena, id) \o <<"/", "*">>
    ELSE get_path(arena, id)

\* NodeId::traverse: the Start and End edges of the subtrees rooted at ids, in order
RECURSIVE traverse(_, _)
traverse(arena, ids) ==
    IF ids = << >> THEN << >>
    ELSE <<[edge |-> "Start", id |-> ids[1]]>>
         \o traverse(arena, arena[ids[1]].children)
         \o <<[edge |-> "End", id |-> ids[1]]>>
         \o traverse(arena, Tail(ids))

\* Variant of propagate_metadata that visits the nodes in the order of their Start
\* edges, a node before its descendants
propagate_metadata_top_down(tree) ==
    LET IsStart(e) == e.edge = "Start"
        Promote(arena, node, common) ==
            IF common # None THEN [arena EXCEPT ![node].metadata = common] ELSE arena
        RECURSIVE Visit(_, _)
        Visit(arena, visit_order) ==
            IF visit_order = << >> THEN arena
            ELSE Visit(Promote(arena, visit_order[1].id,
                               get_common_child_metadata_id_if_any(arena, visit_order[1].id)),
                       Tail(visit_order))
    IN  [tree EXCEPT !.tree_arena =
             Visit(tree.tree_arena, SelectSeq(traverse(tree.tree_arena, <<tree.root>>), IsStart))]

\* propagate_metadata: the nodes in the order of their End edges, each taking
\* the metadata id its children share at that moment
propagate_metadata(tree) ==
    LET IsEnd(e) == e.edge = "End"
        Promote(arena, node, common) ==
            IF common # None THEN [arena EXCEPT ![node].metadata = common] ELSE arena
        RECURSIVE Visit(_, _)
        Visit(arena, visit_order) ==
            IF visit_order = << >> THEN arena
            ELSE Visit(Promote(arena, visit_order[1].id,
                               get_common_child_metadata_id_if_any(arena, visit_order[1].id)),
                       Tail(visit_order))
    IN  [tree EXCEPT !.tree_arena =
             Visit(tree.tree_arena, SelectSeq(traverse(tree.tree_arena, <<tree.root>>), IsEnd))]

\* accumulate: intern the cleaned metadata, find or create the node of the file
\* name, set the metadata id of that node
accumulate(tree, item) ==
    LET Set(found, interned) ==
            [tree_arena |-> [found.arena EXCEPT ![found.id].metadata = Some(interned.id)],
             root |-> tree.root,
             metadata |-> interned.table]
    IN  Set(find_or_create_node(tree.tree_arena, tree.root,
                                trim_start_matches(item.file_name, <<".", "/">>)),
            get_or_create_id_for_owned_value(
                tree.metadata,
                Metadata(join(cleanup_copyright_text(item.copyright_text), <<"\n">>),
                         item.license_information_in_file)))

\* skip_until_end_of_id: the position after the End edge of id, from position i on
RECURSIVE skip_until_end_of_id(_, _, _)
skip_until_end_of_id(edges, i, id) ==
    IF i > Len(edges) THEN i
    ELSE IF edges[i].edge = "End" /\ edges[i].id = id THEN i + 1
    ELSE skip_until_end_of_id(edges, i + 1, id)

\* Variant of NodeIdsWithMetadata that goes on below a node it has given
NodeIdsWithMetadata_without_skip(tree) ==
    LET RECURSIVE Rest(_, _)
        Rest(edges, i) ==
            IF i > Len(edges) THEN << >>
            ELSE IF edges[i].edge = "Start" /\ tree.tree_arena[edges[i].id].metadata # None
            THEN <<edges[i].id>> \o Rest(edges, i + 1)
            ELSE Rest(edges, i + 1)
    IN  Rest(traverse(tree.tree_arena, <<tree.root>>), 1)

\* NodeIdsWithMetadata: the nodes whose Start edge is met carrying a metadata id;
\* the edges below such a node are skipped
NodeIdsWithMetadata(tree) ==
    LET RECURSIVE Rest(_, _)
        Rest(edges, i) ==
            IF i > Len(edges) THEN << >>
            ELSE IF edges[i].edge = "Start" /\ tree.tree_arena[edges[i].id].metadata # None
            THEN <<edges[i].id>> \o Rest(edges, skip_until_end_of_id(edges, i + 1, edges[i].id))
            ELSE Rest(edges, i + 1)
    IN  Rest(traverse(tree.tree_arena, <<tree.root>>), 1)

\* Itertools::chunk_by on get_metadata_id: runs of consecutive nodes with equal key
RECURSIVE chunk_by(_, _)
chunk_by(arena, ids) ==
    LET Same(k) == arena[ids[k]].metadata = arena[ids[1]].metadata
        Chunk(n) ==
            <<[key |-> arena[ids[1]].metadata, ids |-> SubSeq(ids, 1, n)]>>
            \o chunk_by(arena, SubSeq(ids, n + 1, Len(ids)))
    IN  IF ids = << >> THEN << >>
        ELSE Chunk(Cardinality({n \in 1..Len(ids) : \A k \in 1..n : Same(k)}))

\* Variant of process_file_pattern that keeps a leading "./"
process_file_pattern_untrimmed(path) == replace(path, <<" ">>, <<"?">>)

\* process_file_pattern: leading "./" removed, spaces replaced by "?"
process_file_pattern(path) ==
    replace(trim_start_matches(path, <<".", "/">>), <<" ">>, <<"?">>)

\* make_paragraphs: one FilesParagraph per chunk.  Each license expression of the
\* model is a single license identifier, so that the OR-joined string is already in
\* the form SpdxExpression::parse(..).to_string() gives it.
make_paragraphs(tree, grouped_chunks) ==
    LET Patterns(ids) == [i \in 1..Len(ids) |-> get_pattern(tree.tree_arena, ids[i])]
        Processed(v) == [i \in 1..Len(v) |-> process_file_pattern(v[i])]
        Paragraph(chunk, metadata) ==
            [files |-> join(Processed(sorted(Patterns(chunk.ids))), <<"\n">>),
             copyright |-> metadata.copyright_text,
             license |-> licenses_spdx_to_debian(
                             join(metadata.license, <<" ", "O", "R", " ">>)),
             comment |-> None]
    IN  [i \in 1..Len(grouped_chunks) |->
            Paragraph(grouped_chunks[i],
                      AtomTable_get(tree.metadata, grouped_chunks[i].key[1])[1])]

(***************************************************************************)
(* years.rs: year ranges, their rendering and their coalescing.  The years *)
(* of the model stay inside 1..65534, where the u16 arithmetic of can_add  *)
(* does not overflow.                                                      *)
(***************************************************************************)
YearRange(begin, end) == [begin |-> begin, end |-> end]

\* From<YearSpec> for YearRange
YearRange_from(ys) == YearRange(ys.begin, ys.end)

is_single_year(r) == r.begin = r.end

\* YearContainment for YearRange
contains_year(r, other) == other <= r.end /\ other >= r.begin

\* Variant of can_add without the two neighbouring years
can_add_within(r, new_year) == contains_year(r, new_year)

can_add(r, new_year) ==
    \/ contains_year(r, new_year)
    \/ new_year = r.end + 1
    \/ new_year = r.begin - 1

can_merge(r, new_range) == can_add(r, new_range.begin) \/ can_add(r, new_range.end)

merge_with(r, other) ==
    YearRange(IF r.begin <= other.begin THEN r.begin ELSE other.begin,
              IF r.end >= other.end THEN r.end ELSE other.end)

\* Display for YearRange
YearRange_to_string(r) ==
    IF r.begin = r.end THEN u16_to_string(r.begin)
    ELSE u16_to_string(r.begin) \o <<"-">> \o u16_to_string(r.end)

\* Display for YearSpec
YearSpec_to_string(ys) ==
    IF ys.kind = "SingleYear" THEN u16_to_string(ys.begin)
    ELSE YearRange_to_string(YearRange_from(ys))

\* coalesce_years: Itertools::coalesce, each range merged into the running one
\* when can_merge allows it
RECURSIVE coalesce_years(_)
coalesce_years(years) ==
    IF Len(years) <= 1 THEN years
    ELSE IF can_merge(years[1], years[2])
    THEN coalesce_years(<<merge_with(years[1], years[2])>> \o SubSeq(years, 3, Len(years)))
    ELSE <<years[1]>> \o coalesce_years(Tail(years))

\* TotalOrderedYearRange::make_key
make_key(r) == <<r.begin, 0 - r.end>>

\* BinaryHeap::into_sorted_vec under the order of make_key; the heap is kept as
\* the sequence of the pushed ranges
RECURSIVE into_sorted_vec(_)
into_sorted_vec(heap) ==
    LET Less(ka, kb) == ka[1] < kb[1] \/ (ka[1] = kb[1] /\ ka[2] < kb[2])
        Insert(x, rest) ==
            LET At(k) == SubSeq(rest, 1, k) \o <<x>> \o SubSeq(rest, k + 1, Len(rest))
            IN  At(Cardinality({i \in 1..Len(rest) : Less(make_key(rest[i]), make_key(x))}))
    IN  IF Len(heap) <= 1 THEN heap
        ELSE Insert(heap[1], into_sorted_vec(Tail(heap)))

\* YearRangeCollection::into_coalesced_vec
into_coalesced_vec(heap) == coalesce_years(into_sorted_vec(heap))

(***************************************************************************)
(* copyright.rs: rendering of statements                                   *)
(***************************************************************************)
\* Display for DecomposedCopyright
DecomposedCopyright_to_string(d) ==
    join([i \in 1..Len(d.years) |-> YearSpec_to_string(d.years[i])], <<",", " ">>)
    \o <<",", " ">> \o d.holder

\* Display for Copyright
Copyright_to_string(c) ==
    CASE c.kind = "Decomposable" -> DecomposedCopyright_to_string(c.lines[1])
      [] c.kind = "MultilineDecomposable" ->
             join([i \in 1..Len(c.lines) |-> DecomposedCopyright_to_string(c.lines[i])],
                  <<"\n">>)
      [] OTHER -> c.text

(***************************************************************************)
(* tree.rs: decomposition of the stored texts and the subtree summarizer.  *)
(* The maps of the summarizer are functions; the order in which a HashMap  *)
(* is walked is left open by returning the outputs as a set.               *)
(***************************************************************************)
\* perform_copyright_decomposition: the metadata table transformed, id after id,
\* by parsing the stored text; a parsed value that already has an id is the one
\* error the expect on the transform does not accept, and the run panics
perform_copyright_decomposition(tree, opts) ==
    LET Parsed(metadata, r) ==
            [status |-> r.status,
             val |-> [license |-> metadata.license, copyright |-> r.val]]
        RECURSIVE Loop(_, _, _)
        Step(k, vec, map, r) ==
            IF r.status = "panic" THEN Panic
            ELSE IF r.status # "ok" THEN Err
            ELSE IF r.val \in DOMAIN map THEN Panic
            ELSE Loop(k + 1, Append(vec, r.val), (r.val :> (k - 1)) @@ map)
        Loop(k, vec, map) ==
            IF k > Len(tree.metadata.vec)
            THEN Ok([tree EXCEPT !.metadata = [vec |-> vec, map |-> map]])
            ELSE Step(k, vec, map,
                      Parsed(tree.metadata.vec[k],
                             try_parse(opts, tree.metadata.vec[k].copyright_text)))
    IN  Loop(1, << >>, << >>)

LicenseAndHolders_new(license, holders) ==
    [license |-> license, holders |-> sorted(holders)]

\* UsageCount::get
UsageCount_get(data, val) == IF val \in DOMAIN data THEN data[val] ELSE 0

SubtreeSummarizer_default ==
    [ranges_per_holder |-> << >>,
     license_and_holders_metadata_ids |-> << >>,
     metadata_id_usage_count |-> << >>]

record_ranges_for_line_holder(self, line) ==
    LET Extended(old) ==
            old \o [i \in 1..Len(line.years) |-> YearRange_from(line.years[i])]
    IN  [self EXCEPT !.ranges_per_holder =
             (line.holder :> Extended(IF line.holder \in DOMAIN @ THEN @[line.holder]
                                      ELSE << >>)) @@ @]

\* Variant of SubtreeSummarizer::accumulate that passes over a Complex statement
SubtreeSummarizer_accumulate_skipping(self, copyright, license, metadata_id) ==
    LET RECURSIVE Record(_, _)
        Record(s, lines) ==
            IF lines = << >> THEN s
            ELSE Record(record_ranges_for_line_holder(s, lines[1]), Tail(lines))
        Insert(s, key) ==
            [s EXCEPT !.license_and_holders_metadata_ids =
                 (key :> ((IF key \in DOMAIN @ THEN @[key] ELSE {}) \cup {metadata_id}))
                 @@ @]
        Holders(lines) == [i \in 1..Len(lines) |-> lines[i].holder]
        Process(s) ==
            IF copyright = None \/ license = None THEN Ok(s)
            ELSE IF copyright[1].kind = "Complex" THEN Ok(s)
            ELSE Ok(Insert(Record(s, copyright[1].lines),
                           LicenseAndHolders_new(license[1], Holders(copyright[1].lines))))
        Counted(s, id_usage_count) ==
            IF id_usage_count > 1 THEN Ok(s) ELSE Process(s)
        Increment(id_usage_count) ==
            Counted([self EXCEPT !.metadata_id_usage_count =
                         (metadata_id :> id_usage_count) @@ @],
                    id_usage_count)
    IN  Increment(UsageCount_get(self.metadata_id_usage_count, metadata_id) + 1)

\* SubtreeSummarizer::accumulate, with the copyright and the license the metadata
\* source has for the id (Options).  A Decomposable statement is kept as a
\* one-line list, so both decomposed variants record their lines alike.
SubtreeSummarizer_accumulate(self, copyright, license, metadata_id) ==
    LET RECURSIVE Record(_, _)
        Record(s, lines) ==
            IF lines = << >> THEN s
            ELSE Record(record_ranges_for_line_holder(s, lines[1]), Tail(lines))
        Insert(s, key) ==
            [s EXCEPT !.license_and_holders_metadata_ids =
                 (key :> ((IF key \in DOMAIN @ THEN @[key] ELSE {}) \cup {metadata_id}))
                 @@ @]
        Holders(lines) == [i \in 1..Len(lines) |-> lines[i].holder]
        Process(s) ==
            IF copyright = None \/ license = None THEN Ok(s)
            ELSE IF copyright[1].kind = "Complex" THEN Panic
            ELSE Ok(Insert(Record(s, copyright[1].lines),
                           LicenseAndHolders_new(license[1], Holders(copyright[1].lines))))
        Counted(s, id_usage_count) ==
            IF id_usage_count > 1 THEN Ok(s) ELSE Process(s)
        Increment(id_usage_count) ==
            Counted([self EXCEPT !.metadata_id_usage_count =
                         (metadata_id :> id_usage_count) @@ @],
                    id_usage_count)
    IN  Increment(UsageCount_get(self.metadata_id_usage_count, metadata_id) + 1)

\* SubtreeSummarizer::into_results: the outputs, or a panic when a holder has
\* already been removed from ranges_per_holder
into_results(self) ==
    LET RECURSIVE Sum(_)
        Sum(ids) ==
            IF ids = {} THEN 0
            ELSE LET Take(id) ==
                         UsageCount_get(self.metadata_id_usage_count, id) + Sum(ids \ {id})
                 IN  Take(CHOOSE id \in ids : TRUE)
        Years(v) ==
            [i \in 1..Len(v) |->
                IF is_single_year(v[i]) THEN SingleYear(v[i].begin)
                ELSE ClosedRange(v[i].begin, v[i].end)]
        Without(ranges, holder) == [h \in (DOMAIN ranges) \ {holder} |-> ranges[h]]
        \* the copyrights of one entry: [status, ranges, copyrights]
        RECURSIVE Map(_, _, _)
        Map(holders, ranges, copyrights) ==
            IF holders = << >>
            THEN [status |-> "ok", ranges |-> ranges, copyrights |-> copyrights]
            ELSE IF holders[1] \notin DOMAIN ranges
            THEN [status |-> "panic", ranges |-> ranges, copyrights |-> copyrights]
            ELSE Map(Tail(holders), Without(ranges, holders[1]),
                     Append(copyrights,
                            [years |-> Years(into_coalesced_vec(ranges[holders[1]])),
                             holder |-> holders[1]]))
        Output(key, copyrights) ==
            [metadata |->
                 [license |-> key.license,
                  copyright |-> IF Len(copyrights) = 1 THEN Decomposable(copyrights[1])
                                ELSE MultilineDecomposable(copyrights)],
             usage_count |-> Sum(self.license_and_holders_metadata_ids[key]),
             metadata_ids |-> self.license_and_holders_metadata_ids[key]]
        RECURSIVE Loop(_, _, _)
        Entry(keys, key, mapped, ret) ==
            IF mapped.status = "panic" THEN Panic
            ELSE Loop(keys \ {key}, mapped.ranges, ret \cup {Output(key, mapped.copyrights)})
        Visit(keys, key, ranges, ret) ==
            Entry(keys, key, Map(key.holders, ranges, << >>), ret)
        Loop(keys, ranges, ret) ==
            IF keys = {} THEN Ok(ret)
            ELSE Visit(keys, CHOOSE key \in keys : TRUE, ranges, ret)
    IN  Loop(DOMAIN self.license_and_holders_metadata_ids, self.ranges_per_holder, {})

(***************************************************************************)
(* years.rs and copyright.rs: containment                                  *)
(***************************************************************************)
\* Variant of contains_range that wants both ends strictly inside
contains_range_strict(r, other) == r.begin < other.begin /\ other.end < r.end

\* YearContainment for YearRange: contains_range
contains_range(r, other) == contains_year(r, other.begin) /\ contains_year(r, other.end)

\* YearContainment for YearSpec (and for Year, the SingleYear case): contains_year
YearSpec_contains_year(ys, other) ==
    IF ys.kind = "SingleYear" THEN ys.begin = other
    ELSE contains_year(YearRange_from(ys), other)

\* YearContainment for YearSpec (and for Year, the SingleYear case): contains_range
YearSpec_contains_range(ys, other) ==
    IF ys.kind = "SingleYear" THEN ys.begin = other.begin /\ ys.begin = other.end
    ELSE contains_range(YearRange_from(ys), other)

\* YearSpec::contains
YearSpec_contains(ys, other) ==
    IF other.kind = "SingleYear" THEN YearSpec_contains_year(ys, other.begin)
    ELSE YearSpec_contains_range(ys, YearRange_from(other))

\* Variant of DecomposedCopyright_contains that pools the specifiers of self: a
\* specifier of other is contained when each of its years is in some specifier
DecomposedCopyright_contains_pooled(d, other) ==
    /\ trim(d.holder) = trim(other.holder)
    /\ \A j \in 1..Len(other.years) :
           \A y \in other.years[j].begin..other.years[j].end :
               \E i \in 1..Len(d.years) : YearSpec_contains_year(d.years[i], y)

\* DecomposedCopyright::contains
DecomposedCopyright_contains(d, other) ==
    /\ trim(d.holder) = trim(other.holder)
    /\ \A j \in 1..Len(other.years) :
           \E i \in 1..Len(d.years) : YearSpec_contains(d.years[i], other.years[j])

\* Variant of vec_contains_decomposed that looks at the first line only
vec_contains_decomposed_first(m, d2) ==
    m # << >> /\ DecomposedCopyright_contains(m[1], d2)

vec_contains_decomposed(m, d2) ==
    \E i \in 1..Len(m) : DecomposedCopyright_contains(m[i], d2)

\* Variant of Copyright_contains in which one contained line of a multi-line other
\* is enough
Copyright_contains_any_line(c, other) ==
    CASE c.kind = "Decomposable" ->
             (CASE other.kind = "Decomposable" ->
                       DecomposedCopyright_contains(c.lines[1], other.lines[1])
                [] other.kind = "MultilineDecomposable" ->
                       \E j \in 1..Len(other.lines) :
                           DecomposedCopyright_contains(c.lines[1], other.lines[j])
                [] OTHER -> FALSE)
      [] c.kind = "MultilineDecomposable" ->
             (CASE other.kind = "Decomposable" ->
                       vec_contains_decomposed(c.lines, other.lines[1])
                [] other.kind = "MultilineDecomposable" ->
                       \E j \in 1..Len(other.lines) :
                           vec_contains_decomposed(c.lines, other.lines[j])
                [] OTHER -> FALSE)
      [] OTHER -> other.kind = "Complex" /\ c.text = other.text

\* Copyright::contains.  A Decomposable statement keeps its line as a one-line list.
Copyright_contains(c, other) ==
    CASE c.kind = "Decomposable" ->
             (CASE other.kind = "Decomposable" ->
                       DecomposedCopyright_contains(c.lines[1], other.lines[1])
                [] other.kind = "MultilineDecomposable" ->
                       \A j \in 1..Len(other.lines) :
                           DecomposedCopyright_contains(c.lines[1], other.lines[j])
                [] OTHER -> FALSE)
      [] c.kind = "MultilineDecomposable" ->
             (CASE other.kind = "Decomposable" ->
                       vec_contains_decomposed(c.lines, other.lines[1])
                [] other.kind = "MultilineDecomposable" ->
                       \A j \in 1..Len(other.lines) :
                           vec_contains_decomposed(c.lines, other.lines[j])
                [] OTHER -> FALSE)
      [] OTHER -> other.kind = "Complex" /\ c.text = other.text

(***************************************************************************)
(* The inputs of the parser specifications                                 *)
(***************************************************************************)
\* Lines a statement is written from, each with the year specifiers it states
\* (in written order) and its holder, trimmed, as a reader takes them
LineForms ==
    <<
       \* 1: "2024, Foo"
       [text |-> <<"2", "0", "2", "4", ",", " ", "F", "o", "o">>,
        years |-> <<SingleYear(2024)>>,
        holder |-> <<"F", "o", "o">>],
       \* 2: "Copyright 2020, 2022-2024, Bar, Ltd."
       [text |-> <<"C", "o", "p", "y", "r", "i", "g", "h", "t", " ", "2", "0", "2", "0", ",", " ", "2", "0", "2", "2", "-", "2", "0", "2", "4", ",", " ", "B", "a", "r", ",", " ", "L", "t", "d", ".">>,
        years |-> <<SingleYear(2020), ClosedRange(2022, 2024)>>,
        holder |-> <<"B", "a", "r", ",", " ", "L", "t", "d", ".">>],
       \* 3: "copr 95-20 ,  Foo  "
       [text |-> <<"c", "o", "p", "r", " ", "9", "5", "-", "2", "0", " ", ",", " ", " ", "F", "o", "o", " ", " ">>,
        years |-> <<ClosedRange(1995, 2020)>>,
        holder |-> <<"F", "o", "o">>],
       \* 4: "1995-20, Foo"
       [text |-> <<"1", "9", "9", "5", "-", "2", "0", ",", " ", "F", "o", "o">>,
        years |-> <<ClosedRange(1995, 2020)>>,
        holder |-> <<"F", "o", "o">>],
       \* 5: "19 20, Bar"
       [text |-> <<"1", "9", " ", "2", "0", ",", " ", "B", "a", "r">>,
        years |-> <<SingleYear(2019), SingleYear(2020)>>,
        holder |-> <<"B", "a", "r">>],
       \* 6: "2024,"
       [text |-> <<"2", "0", "2", "4", ",">>,
        years |-> <<SingleYear(2024)>>,
        holder |-> <<>>],
       \* 7: "2022-1995, Foo"
       [text |-> <<"2", "0", "2", "2", "-", "1", "9", "9", "5", ",", " ", "F", "o", "o">>,
        years |-> << >>,
        holder |-> <<>>],
       \* 8: "Copyright (c) 2024, Foo"
       [text |-> <<"C", "o", "p", "y", "r", "i", "g", "h", "t", " ", "(", "c", ")", " ", "2", "0", "2", "4", ",", " ", "F", "o", "o">>,
        years |-> <<SingleYear(2024)>>,
        holder |-> <<"F", "o", "o">>],
       \* 9: "2024, 20th Fox"
       [text |-> <<"2", "0", "2", "4", ",", " ", "2", "0", "t", "h", " ", "F", "o", "x">>,
        years |-> <<SingleYear(2024)>>,
        holder |-> <<"2", "0", "t", "h", " ", "F", "o", "x">>],
       \* 10: "2024 Foo"
       [text |-> <<"2", "0", "2", "4", " ", "F", "o", "o">>,
        years |-> << >>,
        holder |-> <<>>],
       \* 11: "All rights reserved"
       [text |-> <<"A", "l", "l", " ", "r", "i", "g", "h", "t", "s", " ", "r", "e", "s", "e", "r", "v", "e", "d">>,
        years |-> << >>,
        holder |-> <<>>]
    >>

\* The statement written as the given lines, joined by joiner
RECURSIVE JoinLines(_, _)
JoinLines(idx, joiner) ==
    IF Len(idx) = 1 THEN LineForms[idx[1]].text
    ELSE LineForms[idx[1]].text \o joiner \o JoinLines(Tail(idx), joiner)

\* A line break, and a line break followed by a blank line
Joiners == {<<"\n">>, <<"\n", " ", "\n">>}

MaxLines == 2

LineSeqs == UNION {[1..n -> 1..Len(LineForms)] : n \in 1..MaxLines}

\* Prefixes in several letter cases, and the whitespace that may follow one
PrefixTexts ==
    {
       <<"c", "o", "p", "y", "r", "i", "g", "h", "t">>,
       <<"C", "o", "p", "y", "r", "i", "g", "h", "t">>,
       <<"C", "O", "P", "Y", "R", "I", "G", "H", "T">>,
       <<"c", "o", "p", "y", "r", "i", "g", "h", "t", " ", "(", "c", ")">>,
       <<"C", "o", "p", "y", "r", "i", "g", "h", "t", " ", "(", "C", ")">>,
       <<"C", "O", "P", "Y", "R", "I", "G", "H", "T", " ", "(", "C", ")">>,
       <<"c", "o", "p", "r">>,
       <<"C", "o", "p", "r">>,
       <<"C", "O", "P", "R">>
    }

PrefixGaps == {<< >>, <<" ">>, <<"\t", " ">>}

\* Lines of LineForms that carry no prefix of their own
PrefixBodies == {1, 4, 5}

YearsIdle ==
    /\ raw_range = <<TwoDigit(0), TwoDigit(0)>>
    /\ normalized = None
    /\ year_spec_result = Err

ParseIdle ==
    /\ input_lines = << >>
    /\ statement = << >>
    /\ line_results = << >>
    /\ parsed = Err

PrefixIdle ==
    /\ prefix_input = [prefix |-> << >>, gap |-> << >>, body |-> << >>]
    /\ bare_line = Err
    /\ prefixed_line = Err

TreeIdle ==
    /\ file_records = << >>
    /\ consumed = 0
    /\ cdt = CopyrightDataTree_new
    /\ grouped = << >>
    /\ paras = << >>

CoerceIdle ==
    /\ raw_year = << >>
    /\ century_hint = 0
    /\ coerced = None
    /\ coerced_with_hint = None

ContainIdle ==
    /\ contain_texts = << >>
    /\ contain_self = None
    /\ contain_other = None
    /\ contained = None

CoalesceIdle ==
    /\ years_heap = << >>
    /\ range_seq = << >>
    /\ coalesced_vec = None
    /\ coalesced_once = None
    /\ coalesced_twice = None

AtomsIdle ==
    /\ atom_table = << >>
    /\ atom_before = << >>
    /\ atom_seen = {}
    /\ atom_value = None
    /\ atom_id = None
    /\ atom_f = None
    /\ transformed = None

SummIdle ==
    /\ summ_cdt = << >>
    /\ summ_decomposed = None
    /\ summ_ids = << >>
    /\ summarizer = << >>
    /\ summ_results = None

WrittenIdle ==
    /\ written_specs = << >>
    /\ written_line = << >>
    /\ written_parsed = None

TransIdle ==
    /\ trans_texts = << >>
    /\ trans_parsed = << >>
    /\ trans_contains = None

\* all_consuming(copyright_line(options)): the line parser applied to one whole line
all_consuming_copyright_line(line, opts) ==
    LET AllConsuming(l) ==
            CASE l.status = "ok" /\ l.pos = Len(line) + 1 -> Ok(l.val)
              [] l.status = "panic" -> Panic
              [] OTHER -> Err
    IN  AllConsuming(copyright_line(line, 1, opts))

(***************************************************************************)
(* SpecYears: range normalization applied to a raw pair of years           *)
(***************************************************************************)
\* Two-digit years the normalization is tried on
TwoDigitSamples == {0, 5, 19, 20, 59, 60, 95, 99}

\* Four-digit years the year parser can produce (century "19" or "20")
FourDigitSamples == {1900, 1959, 1960, 1995, 1999, 2000, 2005, 2020, 2022, 2099}

RawYears ==
    {TwoDigit(y) : y \in TwoDigitSamples} \cup {FourDigit(y) : y \in FourDigitSamples}

InitYears ==
    /\ pc = "start"
    /\ options \in AllOptions
    /\ TransIdle
    /\ WrittenIdle
    /\ SummIdle
    /\ AtomsIdle
    /\ CoalesceIdle
    /\ ContainIdle
    /\ CoerceIdle
    /\ raw_range \in RawYears \X RawYears
    /\ normalized = None
    /\ year_spec_result = Err
    /\ ParseIdle
    /\ PrefixIdle
    /\ TreeIdle

TryToFourDigitRange ==
    /\ pc = "start"
    /\ normalized' = try_to_four_digit_range(raw_range, options)
    /\ pc' = "normalized"
    /\ UNCHANGED <<options, raw_range, year_spec_result, parseVars, prefixVars, treeVars, coerceVars, containVars, coalesceVars, atomVars, summVars, writtenVars, transVars>>

YearSpecConfigured ==
    /\ pc = "normalized"
    /\ year_spec_result' = year_spec_of_raw(raw_range, options)
    /\ pc' = "done"
    /\ UNCHANGED <<options, raw_range, normalized, parseVars, prefixVars, treeVars, coerceVars, containVars, coalesceVars, atomVars, summVars, writtenVars, transVars>>

NextYears == TryToFourDigitRange \/ YearSpecConfigured

SpecYears == InitYears /\ [][NextYears]_vars

(***************************************************************************)
(* SpecParse: Copyright::try_parse applied to a statement of one or more   *)
(* lines                                                                   *)
(***************************************************************************)
InitParse ==
    /\ pc = "start"
    /\ options \in AllOptions
    /\ TransIdle
    /\ WrittenIdle
    /\ SummIdle
    /\ AtomsIdle
    /\ CoalesceIdle
    /\ ContainIdle
    /\ CoerceIdle
    /\ input_lines \in LineSeqs
    /\ \E joiner \in Joiners : statement = JoinLines(input_lines, joiner)
    /\ line_results = << >>
    /\ parsed = Err
    /\ YearsIdle
    /\ PrefixIdle
    /\ TreeIdle

DecomposeLines ==
    /\ pc = "start"
    /\ line_results' =
           [i \in 1..Len(input_lines) |->
               all_consuming_copyright_line(LineForms[input_lines[i]].text, options)]
    /\ pc' = "lines"
    /\ UNCHANGED <<options, input_lines, statement, parsed, yearVars, prefixVars, treeVars, coerceVars, containVars, coalesceVars, atomVars, summVars, writtenVars, transVars>>

TryParse ==
    /\ pc = "lines"
    /\ parsed' = try_parse(options, statement)
    /\ pc' = "done"
    /\ UNCHANGED <<options, input_lines, statement, line_results, yearVars, prefixVars, treeVars, coerceVars, containVars, coalesceVars, atomVars, summVars, writtenVars, transVars>>

NextParse == DecomposeLines \/ TryParse

SpecParse == InitParse /\ [][NextParse]_vars

(***************************************************************************)
(* SpecPrefix: copyright_line applied to a line with and without a prefix  *)
(***************************************************************************)
InitPrefix ==
    /\ pc = "start"
    /\ options \in AllOptions
    /\ TransIdle
    /\ WrittenIdle
    /\ SummIdle
    /\ AtomsIdle
    /\ CoalesceIdle
    /\ ContainIdle
    /\ CoerceIdle
    /\ prefix_input \in
           [prefix : PrefixTexts, gap : PrefixGaps,
            body : {LineForms[i].text : i \in PrefixBodies}]
    /\ bare_line = Err
    /\ prefixed_line = Err
    /\ YearsIdle
    /\ ParseIdle
    /\ TreeIdle

ParseBareLine ==
    /\ pc = "start"
    /\ bare_line' = all_consuming_copyright_line(prefix_input.body, options)
    /\ pc' = "bare"
    /\ UNCHANGED <<options, prefix_input, prefixed_line, yearVars, parseVars, treeVars, coerceVars, containVars, coalesceVars, atomVars, summVars, writtenVars, transVars>>

ParsePrefixedLine ==
    /\ pc = "bare"
    /\ prefixed_line' =
           all_consuming_copyright_line(
               prefix_input.prefix \o prefix_input.gap \o prefix_input.body, options)
    /\ pc' = "done"
    /\ UNCHANGED <<options, prefix_input, bare_line, yearVars, parseVars, treeVars, coerceVars, containVars, coalesceVars, atomVars, summVars, writtenVars, transVars>>

NextPrefix == ParseBareLine \/ ParsePrefixedLine

SpecPrefix == InitPrefix /\ [][NextPrefix]_vars

(***************************************************************************)
(* The data tree: file records are accumulated one by one, metadata is     *)
(* propagated, paragraphs are made (spdx_to_dep5 propagates first,         *)
(* dep5-from-wildcards makes the paragraphs of the tree as built).         *)
(***************************************************************************)
Paths ==
    {<<"a">>, <<".", "/", "b">>, <<"d", "/", "a">>, <<"d", "/", "b", " ", "c">>}

\* Copyright text and license list of a file record
FileMetas ==
    {[copyright_text |-> Some(<<"C", "o", "p", "y", "r", "i", "g", "h", "t", " ", "2", "0", "2", "0", ",", " ", "2", "0", "2", "1", ",", " ", "F", "o", "o">>),
      license |-> <<<<"M", "I", "T">>>>],
     [copyright_text |-> Some(<<"2", "0", "2", "0", ",", " ", "2", "0", "2", "1", ",", " ", "F", "o", "o", "'">>),
      license |-> <<<<"M", "I", "T">>>>],
     [copyright_text |-> Some(<<"S", "P", "D", "X", "-", "F", "i", "l", "e", "C", "o", "p", "y", "r", "i", "g", "h", "t", "T", "e", "x", "t", ":", " ", "2", "0", "2", "4", ",", " ", "B", "a", "r", "\n", "2", "0", "1", "9", ",", " ", "F", "o", "o", ",">>),
      license |-> <<<<"M", "I", "T">>, <<"A", "p", "a", "c", "h", "e", "-", "2", ".", "0">>>>],
     [copyright_text |-> None,
      license |-> <<<<"B", "S", "D", "-", "3", "-", "C", "l", "a", "u", "s", "e">>>>]}

\* models::FileInformation, the fields accumulate reads
FileInformation(file_name, meta) ==
    [file_name |-> file_name,
     copyright_text |-> meta.copyright_text,
     license_information_in_file |-> meta.license]

MaxRecords == 3

RecordSeqs ==
    UNION {[1..n -> {FileInformation(p, m) : p \in Paths, m \in FileMetas}] :
               n \in 1..MaxRecords}

Init ==
    /\ pc = "extend"
    /\ options = DefaultOptions
    /\ TransIdle
    /\ WrittenIdle
    /\ SummIdle
    /\ AtomsIdle
    /\ CoalesceIdle
    /\ ContainIdle
    /\ CoerceIdle
    /\ YearsIdle
    /\ ParseIdle
    /\ PrefixIdle
    /\ file_records \in RecordSeqs
    /\ consumed = 0
    /\ cdt = CopyrightDataTree_new
    /\ grouped = << >>
    /\ paras = << >>

\* Extend::extend, one item: self.accumulate(&item)
Accumulate ==
    /\ pc = "extend"
    /\ consumed < Len(file_records)
    /\ cdt' = accumulate(cdt, file_records[consumed + 1])
    /\ consumed' = consumed + 1
    /\ UNCHANGED <<pc, options, file_records, grouped, paras, yearVars, parseVars, prefixVars, coerceVars, containVars, coalesceVars, atomVars, summVars, writtenVars, transVars>>

PropagateMetadata ==
    /\ pc = "extend"
    /\ consumed = Len(file_records)
    /\ cdt' = propagate_metadata(cdt)
    /\ pc' = "propagated"
    /\ UNCHANGED <<options, file_records, consumed, grouped, paras, yearVars, parseVars, prefixVars, coerceVars, containVars, coalesceVars, atomVars, summVars, writtenVars, transVars>>

MakeParagraphs ==
    /\ consumed = Len(file_records)
    /\ pc \in {"extend", "propagated"}
    /\ grouped' = chunk_by(cdt.tree_arena, NodeIdsWithMetadata(cdt))
    /\ paras' = make_paragraphs(cdt, grouped')
    /\ pc' = IF pc = "propagated" THEN "emitted" ELSE "emitted_unpropagated"
    /\ UNCHANGED <<options, file_records, consumed, cdt, yearVars, parseVars, prefixVars, coerceVars, containVars, coalesceVars, atomVars, summVars, writtenVars, transVars>>

Next == Accumulate \/ PropagateMetadata \/ MakeParagraphs

Spec == Init /\ [][Next]_vars

(***************************************************************************)
(* The tree of NumFiles files directly under src/, all with the same       *)
(* metadata or all but one, inserted in several orders                     *)
(***************************************************************************)
NumFiles == 10

\* The file records: file number Order(k) is the k-th inserted; file number
\* changed (0: none) carries the other metadata
TenFileRecords ==
    LET Src == <<"s", "r", "c", "/", "f">>
        Text == <<"C", "o", "p", "y", "r", "i", "g", "h", "t", " ", "2", "0", "2", "0", ",", " ", "2", "0", "2", "1", ",", " ", "F", "o", "o">>
        Base == [copyright_text |-> Some(Text), license |-> <<<<"M", "I", "T">>>>]
        Others ==
            {[Base EXCEPT !.license = <<<<"A", "p", "a", "c", "h", "e", "-", "2", ".", "0">>>>],
             [Base EXCEPT !.copyright_text =
                  Some(<<"C", "o", "p", "y", "r", "i", "g", "h", "t", " ", "2", "0", "2", "4", ",", " ", "B", "a", "r">>)],
             [Base EXCEPT !.copyright_text = Some(Text \o <<"'">>)]}
        Order(kind, k) ==
            CASE kind = "forward" -> k
              [] kind = "backward" -> NumFiles + 1 - k
              [] OTHER -> ((k + 2) % NumFiles) + 1
        File(n, prefix, changed, other) ==
            FileInformation(prefix \o Src \o u16_to_string(n - 1),
                            IF n = changed THEN other ELSE Base)
    IN  {[k \in 1..NumFiles |-> File(Order(kind, k), prefix, changed, other)] :
            kind \in {"forward", "backward", "rotated"},
            prefix \in {<< >>, <<".", "/">>},
            changed \in 0..NumFiles,
            other \in Others}

InitTen ==
    /\ pc = "extend"
    /\ options = DefaultOptions
    /\ TransIdle
    /\ WrittenIdle
    /\ SummIdle
    /\ AtomsIdle
    /\ CoalesceIdle
    /\ ContainIdle
    /\ CoerceIdle
    /\ YearsIdle
    /\ ParseIdle
    /\ PrefixIdle
    /\ file_records \in TenFileRecords
    /\ consumed = 0
    /\ cdt = CopyrightDataTree_new
    /\ grouped = << >>
    /\ paras = << >>

SpecTen == InitTen /\ [][Next]_vars

(***************************************************************************)
(* Coercion of a single year: to_four_digit and                            *)
(* to_four_digit_with_century_hint on every two-digit year and on          *)
(* four-digit years (TwoDigitYear::new asserts year < 100,                 *)
(* FourDigitYear::new asserts year > 99)                                   *)
(***************************************************************************)
FourDigitInputs == {100, 999, 1900, 1959, 1960, 1995, 2020, 2059, 2095, 9999, 65535}

CenturyHints == {20, 21}

InitCoerce ==
    /\ pc = "coerce"
    /\ options = DefaultOptions
    /\ TransIdle
    /\ WrittenIdle
    /\ SummIdle
    /\ AtomsIdle
    /\ CoalesceIdle
    /\ ContainIdle
    /\ YearsIdle
    /\ ParseIdle
    /\ PrefixIdle
    /\ TreeIdle
    /\ raw_year \in {TwoDigit(y) : y \in 0..99} \cup {FourDigit(y) : y \in FourDigitInputs}
    /\ century_hint \in CenturyHints
    /\ coerced = None
    /\ coerced_with_hint = None

ToFourDigit ==
    /\ pc = "coerce"
    /\ coerced = None
    /\ coerced' = Some(to_four_digit(raw_year))
    /\ UNCHANGED <<pc, options, raw_year, century_hint, coerced_with_hint, yearVars, parseVars, prefixVars, treeVars, containVars, coalesceVars, atomVars, summVars, writtenVars, transVars>>

ToFourDigitWithCenturyHint ==
    /\ pc = "coerce"
    /\ coerced_with_hint = None
    /\ coerced_with_hint' = Some(to_four_digit_with_century_hint(raw_year, century_hint))
    /\ UNCHANGED <<pc, options, raw_year, century_hint, coerced, yearVars, parseVars, prefixVars, treeVars, containVars, coalesceVars, atomVars, summVars, writtenVars, transVars>>

NextCoerce == ToFourDigit \/ ToFourDigitWithCenturyHint

SpecCoerce == InitCoerce /\ [][NextCoerce]_vars

(***************************************************************************)
(* Containment of statements.  The statements are parsed from texts, as    *)
(* dep5-from-wildcards does for its wildcard entries and its files, or     *)
(* built from the public fields of DecomposedCopyright, holders with       *)
(* surrounding spaces included.                                            *)
(***************************************************************************)
ContainTexts ==
    {<<"C", "o", "p", "y", "r", "i", "g", "h", "t", " ", "2", "0", "2", "4", ",", " ", "R", "y", "l", "i", "e", " ", "P", "a", "v", "l", "i", "k", "\n", " ", " ", " ", " ", " ", " ", " ", " ", "C", "o", "p", "y", "r", "i", "g", "h", "t", " ", "2", "0", "2", "0", ",", " ", "2", "0", "2", "2", "-", "2", "0", "2", "4", ",", " ", "C", "o", "l", "l", "a", "b", "o", "r", "a", ",", " ", "L", "t", "d", ".">>,
     <<"2", "0", "2", "0", ",", " ", "2", "0", "2", "2", "-", "2", "0", "2", "4", ",", " ", "C", "o", "l", "l", "a", "b", "o", "r", "a", ",", " ", "L", "t", "d", ".", "\n", "2", "0", "2", "4", ",", " ", "R", "y", "l", "i", "e", " ", "P", "a", "v", "l", "i", "k">>,
     <<"C", "o", "p", "y", "r", "i", "g", "h", "t", " ", "2", "0", "2", "4", ",", " ", "R", "y", "l", "i", "e", " ", "P", "a", "v", "l", "i", "k">>,
     <<"C", "o", "p", "y", "r", "i", "g", "h", "t", " ", "2", "0", "2", "0", ",", " ", "2", "0", "2", "2", "-", "2", "0", "2", "4", ",", " ", "C", "o", "l", "l", "a", "b", "o", "r", "a", ",", " ", "L", "t", "d", ".">>,
     <<"C", "o", "p", "y", "r", "i", "g", "h", "t", " ", "2", "0", "2", "1", ",", " ", "C", "o", "l", "l", "a", "b", "o", "r", "a", ",", " ", "L", "t", "d", ".">>,
     <<"C", "o", "p", "y", "r", "i", "g", "h", "t", " ", "2", "0", "2", "2", "-", "2", "0", "2", "3", ",", " ", "C", "o", "l", "l", "a", "b", "o", "r", "a", ",", " ", "L", "t", "d", ".">>,
     <<"C", "o", "p", "y", "r", "i", "g", "h", "t", " ", "2", "0", "2", "1", "-", "2", "0", "2", "3", ",", " ", "C", "o", "l", "l", "a", "b", "o", "r", "a", ",", " ", "L", "t", "d", ".">>,
     <<"9", "5", "-", "2", "0", ",", " ", "C", "o", "l", "l", "a", "b", "o", "r", "a", ",", " ", "L", "t", "d", ".">>,
     <<"2", "0", "2", "2", "-", "1", "9", "9", "5", ",", " ", "C", "o", "l", "l", "a", "b", "o", "r", "a", ",", " ", "L", "t", "d", ".">>,
     <<"A", "l", "l", " ", "r", "i", "g", "h", "t", "s", " ", "r", "e", "s", "e", "r", "v", "e", "d">>,
     <<"C", "o", "l", "l", "a", "b", "o", "r", "a", ",", " ", "L", "t", "d", ".">>}

ContainLines ==
    {[years |-> ys, holder |-> h] :
        ys \in {<<SingleYear(2020)>>,
                <<ClosedRange(2020, 2020)>>,
                <<ClosedRange(2019, 2021)>>,
                <<SingleYear(2019), ClosedRange(2020, 2021)>>,
                <<ClosedRange(2018, 2020), ClosedRange(2020, 2022)>>},
        h \in {<<"F", "o", "o">>, <<" ", "F", "o", "o">>, <<"F", "o", "o", " ">>, <<"B", "a", "r">>}}

ContainStatements ==
    {Decomposable(d) : d \in ContainLines}
    \cup {MultilineDecomposable(<<d1, d2>>) :
              d1 \in {d \in ContainLines : Len(d.years) = 1 /\ Len(d.holder) = 3},
              d2 \in {d \in ContainLines : Len(d.years) = 2 /\ Len(d.holder) = 3}}
    \cup {MultilineDecomposable(<< >>), Complex(<<"F", "o", "o">>), Complex(<<"2", "0", "2", "0", ",", " ", "F", "o", "o">>)}

InitContains ==
    /\ pc \in {"texts", "statements"}
    /\ options \in AllOptions
    /\ TransIdle
    /\ WrittenIdle
    /\ SummIdle
    /\ AtomsIdle
    /\ CoalesceIdle
    /\ YearsIdle
    /\ ParseIdle
    /\ PrefixIdle
    /\ TreeIdle
    /\ CoerceIdle
    /\ contained = None
    /\ \/ /\ pc = "texts"
          /\ contain_texts \in ContainTexts \X ContainTexts
          /\ contain_self = None
          /\ contain_other = None
       \/ /\ pc = "statements"
          /\ options = DefaultOptions
          /\ contain_texts = << >>
          /\ contain_self \in {Some(c) : c \in ContainStatements}
          /\ contain_other \in {Some(c) : c \in ContainStatements}

\* Copyright::try_parse on both texts (WildcardEntry::try_parse and the statement
\* of a file); a panic of either ends the run
TryParseStatements ==
    LET Both(r1, r2) ==
            /\ pc' = IF r1.status = "ok" /\ r2.status = "ok" THEN "statements" ELSE "failed"
            /\ contain_self' = IF r1.status = "ok" THEN Some(r1.val) ELSE None
            /\ contain_other' = IF r2.status = "ok" THEN Some(r2.val) ELSE None
    IN  /\ pc = "texts"
        /\ Both(try_parse(options, contain_texts[1]), try_parse(options, contain_texts[2]))
        /\ UNCHANGED <<options, contain_texts, contained, yearVars, parseVars, prefixVars, treeVars, coerceVars, coalesceVars, atomVars, summVars, writtenVars, transVars>>

Contains ==
    /\ pc = "statements"
    /\ contained = None
    /\ contained' = Some(Copyright_contains(contain_self[1], contain_other[1]))
    /\ UNCHANGED <<pc, options, contain_texts, contain_self, contain_other, yearVars, parseVars, prefixVars, treeVars, coerceVars, coalesceVars, atomVars, summVars, writtenVars, transVars>>

NextContains == TryParseStatements \/ Contains

SpecContains == InitContains /\ [][NextContains]_vars

(***************************************************************************)
(* The year range coalescer: a YearRangeCollection filled specifier by     *)
(* specifier and drained by into_coalesced_vec, and coalesce_years applied  *)
(* to a sequence of ranges and to its own result                           *)
(***************************************************************************)
CoalesceWindow == 2018..2022

\* The proper ranges of the window (YearRange::new asserts begin <= end)
CoalesceRanges ==
    {r \in {YearRange(b, e) : b \in CoalesceWindow, e \in CoalesceWindow} : r.begin <= r.end}

\* The specifiers the parser can produce over the window
CoalesceSpecs ==
    {SingleYear(y) : y \in CoalesceWindow}
    \cup {ClosedRange(r.begin, r.end) : r \in CoalesceRanges}

MaxRanges == 3

RangeSeqs == UNION {[1..n -> CoalesceRanges] : n \in 0..MaxRanges}

InitCoalesce ==
    /\ pc \in {"collection", "sequence"}
    /\ options = DefaultOptions
    /\ TransIdle
    /\ WrittenIdle
    /\ SummIdle
    /\ AtomsIdle
    /\ YearsIdle
    /\ ParseIdle
    /\ PrefixIdle
    /\ TreeIdle
    /\ CoerceIdle
    /\ ContainIdle
    /\ years_heap = << >>
    /\ range_seq \in IF pc = "sequence" THEN RangeSeqs ELSE {<< >>}
    /\ coalesced_vec = None
    /\ coalesced_once = None
    /\ coalesced_twice = None

\* YearRangeCollection::accumulate
AccumulateYearSpec ==
    /\ pc = "collection"
    /\ Len(years_heap) < MaxRanges
    /\ \E ys \in CoalesceSpecs :
           years_heap' = Append(years_heap, YearRange_from(ys))
    /\ UNCHANGED <<pc, options, range_seq, coalesced_vec, coalesced_once, coalesced_twice, yearVars, parseVars, prefixVars, treeVars, coerceVars, containVars, atomVars, summVars, writtenVars, transVars>>

\* YearRangeCollection::into_coalesced_vec; the collection is moved into the call,
\* years_heap keeps what it held
IntoCoalescedVec ==
    /\ pc = "collection"
    /\ pc' = "consumed"
    /\ coalesced_vec' = Some(into_coalesced_vec(years_heap))
    /\ UNCHANGED <<options, years_heap, range_seq, coalesced_once, coalesced_twice, yearVars, parseVars, prefixVars, treeVars, coerceVars, containVars, atomVars, summVars, writtenVars, transVars>>

\* coalesce_years(v), collected
CoalesceYears ==
    /\ pc = "sequence"
    /\ coalesced_once = None
    /\ coalesced_once' = Some(coalesce_years(range_seq))
    /\ UNCHANGED <<pc, options, years_heap, range_seq, coalesced_vec, coalesced_twice, yearVars, parseVars, prefixVars, treeVars, coerceVars, containVars, atomVars, summVars, writtenVars, transVars>>

\* coalesce_years applied to the result of coalesce_years
CoalesceYearsAgain ==
    /\ pc = "sequence"
    /\ coalesced_once # None
    /\ coalesced_twice = None
    /\ coalesced_twice' = Some(coalesce_years(coalesced_once[1]))
    /\ UNCHANGED <<pc, options, years_heap, range_seq, coalesced_vec, coalesced_once, yearVars, parseVars, prefixVars, treeVars, coerceVars, containVars, atomVars, summVars, writtenVars, transVars>>

NextCoalesce ==
    AccumulateYearSpec \/ IntoCoalescedVec \/ CoalesceYears \/ CoalesceYearsAgain

SpecCoalesce == InitCoalesce /\ [][NextCoalesce]_vars

(***************************************************************************)
(* The interning table on its own: values interned one call at a time,     *)
(* then the table transformed by a mapping of its values                   *)
(***************************************************************************)
AtomValues == {"a", "b", "c", "d"}

TransformedValues == {"x", "y", "z"}

InitAtoms ==
    /\ pc = "interning"
    /\ options = DefaultOptions
    /\ TransIdle
    /\ WrittenIdle
    /\ SummIdle
    /\ YearsIdle
    /\ ParseIdle
    /\ PrefixIdle
    /\ TreeIdle
    /\ CoerceIdle
    /\ ContainIdle
    /\ CoalesceIdle
    /\ atom_table = AtomTable_default
    /\ atom_before = AtomTable_default
    /\ atom_seen = {}
    /\ atom_value = None
    /\ atom_id = None
    /\ atom_f = None
    /\ transformed = None

\* table.get_or_create_id_for_owned_value(value)
GetOrCreateIdForOwnedValue ==
    LET Call(value, r) ==
            /\ atom_before' = atom_table
            /\ atom_seen' = atom_seen \cup {value}
            /\ atom_value' = Some(value)
            /\ atom_table' = r.table
            /\ atom_id' = Some(r.id)
    IN  /\ pc = "interning"
        /\ \E value \in AtomValues :
               Call(value, get_or_create_id_for_owned_value(atom_table, value))
        /\ UNCHANGED <<pc, options, atom_f, transformed, yearVars, parseVars, prefixVars, treeVars, coerceVars, containVars, coalesceVars, summVars, writtenVars, transVars>>

\* table.get_or_create_id(&value)
GetOrCreateId ==
    LET Call(value, r) ==
            /\ atom_before' = atom_table
            /\ atom_seen' = atom_seen \cup {value}
            /\ atom_value' = Some(value)
            /\ atom_table' = r.table
            /\ atom_id' = Some(r.id)
    IN  /\ pc = "interning"
        /\ \E value \in AtomValues : Call(value, get_or_create_id(atom_table, value))
        /\ UNCHANGED <<pc, options, atom_f, transformed, yearVars, parseVars, prefixVars, treeVars, coerceVars, containVars, coalesceVars, summVars, writtenVars, transVars>>

\* table.transform(f); the table is borrowed, not changed
Transform ==
    /\ pc = "interning"
    /\ pc' = "transformed"
    /\ atom_before' = atom_table
    /\ \E f \in [AtomValues -> TransformedValues] :
           /\ atom_f' = Some(f)
           /\ transformed' = Some(transform(atom_table, f))
    /\ UNCHANGED <<options, atom_table, atom_seen, atom_value, atom_id, yearVars, parseVars, prefixVars, treeVars, coerceVars, containVars, coalesceVars, summVars, writtenVars, transVars>>

NextAtoms == GetOrCreateIdForOwnedValue \/ GetOrCreateId \/ Transform

SpecAtoms == InitAtoms /\ [][NextAtoms]_vars

(***************************************************************************)
(* The data tree filled with paths that run through one another: a file    *)
(* that is also a directory of later files, with and without "./"          *)
(***************************************************************************)
InsertPaths ==
    {<<"d">>, <<".", "/", "d", "/", "a">>, <<"d", "/", "a", "/", "b">>, <<"d", "/", "c">>, <<"e">>}

InsertMetas ==
    {[copyright_text |-> Some(<<"2", "0", "2", "0", ",", " ", "F", "o", "o">>), license |-> <<<<"M", "I", "T">>>>],
     [copyright_text |-> None, license |-> <<<<"B", "S", "D", "-", "3", "-", "C", "l", "a", "u", "s", "e">>>>]}

InitInsert ==
    /\ pc = "extend"
    /\ options = DefaultOptions
    /\ TransIdle
    /\ WrittenIdle
    /\ SummIdle
    /\ AtomsIdle
    /\ CoalesceIdle
    /\ ContainIdle
    /\ CoerceIdle
    /\ YearsIdle
    /\ ParseIdle
    /\ PrefixIdle
    /\ file_records \in
           UNION {[1..n -> {FileInformation(p, m) : p \in InsertPaths, m \in InsertMetas}] :
                      n \in 1..MaxRecords}
    /\ consumed = 0
    /\ cdt = CopyrightDataTree_new
    /\ grouped = << >>
    /\ paras = << >>

SpecInsert == InitInsert /\ [][Next]_vars

(***************************************************************************)
(* The resummarization on its own: metadata interned into a data tree, the *)
(* table decomposed, metadata ids handed to a SubtreeSummarizer one by     *)
(* one, and the summarizer turned into its results                         *)
(***************************************************************************)
\* Cleaned copyright texts: holders with one and with several statements, a
\* statement naming one holder on two lines, two spellings of one statement,
\* and a text that does not decompose
SummTexts ==
    {<<"2", "0", "2", "0", ",", " ", "F", "o", "o">>, <<"2", "0", "2", "0", ",", " ", " ", "F", "o", "o">>, <<"2", "0", "1", "8", "-", "2", "0", "1", "9", ",", " ", "F", "o", "o">>, <<"2", "0", "2", "1", ",", " ", "B", "a", "r">>,
     <<"2", "0", "2", "0", ",", " ", "F", "o", "o", "\n", "2", "0", "2", "2", ",", " ", "B", "a", "r">>, <<"2", "0", "2", "0", ",", " ", "F", "o", "o", "\n", "2", "0", "2", "2", ",", " ", "F", "o", "o">>, <<"A", "l", "l", " ", "r", "i", "g", "h", "t", "s", " ", "r", "e", "s", "e", "r", "v", "e", "d">>}

SummMetadata ==
    {Metadata(t, l) : t \in SummTexts, l \in {<<<<"M", "I", "T">>>>, <<<<"B", "S", "D", "-", "3", "-", "C", "l", "a", "u", "s", "e">>>>}}

MaxMetadata == 2

MaxMembers == 3

InitSummarize ==
    /\ pc = "interning"
    /\ options = DefaultOptions
    /\ TransIdle
    /\ WrittenIdle
    /\ AtomsIdle
    /\ CoalesceIdle
    /\ ContainIdle
    /\ CoerceIdle
    /\ YearsIdle
    /\ ParseIdle
    /\ PrefixIdle
    /\ TreeIdle
    /\ summ_cdt = CopyrightDataTree_new
    /\ summ_decomposed = None
    /\ summ_ids = << >>
    /\ summarizer = SubtreeSummarizer_default
    /\ summ_results = None

\* find_or_insert_metadata, as accumulate calls it with the cleaned metadata
FindOrInsertMetadata ==
    LET Interned(r) == summ_cdt' = [summ_cdt EXCEPT !.metadata = r.table]
    IN  /\ pc = "interning"
        /\ Len(summ_cdt.metadata.vec) < MaxMetadata
        /\ \E metadata \in SummMetadata :
               Interned(get_or_create_id_for_owned_value(summ_cdt.metadata, metadata))
        /\ UNCHANGED <<pc, options, summ_decomposed, summ_ids, summarizer, summ_results, yearVars, parseVars, prefixVars, treeVars, coerceVars, containVars, coalesceVars, atomVars, writtenVars, transVars>>

\* perform_copyright_decomposition(options)
PerformCopyrightDecomposition ==
    LET Done(r) ==
            /\ summ_decomposed' = Some(r)
            /\ pc' = IF r.status = "ok" THEN "decomposed" ELSE "decomposition_failed"
    IN  /\ pc = "interning"
        /\ summ_cdt.metadata.vec # << >>
        /\ Done(perform_copyright_decomposition(summ_cdt, options))
        /\ UNCHANGED <<options, summ_cdt, summ_ids, summarizer, summ_results, yearVars, parseVars, prefixVars, treeVars, coerceVars, containVars, coalesceVars, atomVars, writtenVars, transVars>>

\* summarizer.accumulate(&decomposed_tree, metadata_id); the metadata source gives
\* the copyright and the license of the id; a panic ends the run
SummarizerAccumulate ==
    LET Done(r) ==
            /\ pc' = IF r.status = "ok" THEN pc ELSE "accumulate_panicked"
            /\ summarizer' = IF r.status = "ok" THEN r.val ELSE summarizer
        Call(table, metadata_id) ==
            /\ summ_ids' = Append(summ_ids, metadata_id)
            /\ Done(SubtreeSummarizer_accumulate(
                        summarizer,
                        IF AtomTable_get(table, metadata_id) = None THEN None
                        ELSE Some(AtomTable_get(table, metadata_id)[1].copyright),
                        IF AtomTable_get(table, metadata_id) = None THEN None
                        ELSE Some(AtomTable_get(table, metadata_id)[1].license),
                        metadata_id))
    IN  /\ pc = "decomposed"
        /\ Len(summ_ids) < MaxMembers
        /\ \E metadata_id \in 0..(Len(summ_cdt.metadata.vec) - 1) :
               Call(summ_decomposed[1].val.metadata, metadata_id)
        /\ UNCHANGED <<options, summ_cdt, summ_decomposed, summ_results, yearVars, parseVars, prefixVars, treeVars, coerceVars, containVars, coalesceVars, atomVars, writtenVars, transVars>>

\* summarizer.into_results()
IntoResults ==
    /\ pc = "decomposed"
    /\ summ_ids # << >>
    /\ pc' = "results"
    /\ summ_results' = Some(into_results(summarizer))
    /\ UNCHANGED <<options, summ_cdt, summ_decomposed, summ_ids, summarizer, yearVars, parseVars, prefixVars, treeVars, coerceVars, containVars, coalesceVars, atomVars, writtenVars, transVars>>

NextSummarize ==
    FindOrInsertMetadata \/ PerformCopyrightDecomposition \/ SummarizerAccumulate
        \/ IntoResults

SpecSummarize == InitSummarize /\ [][NextSummarize]_vars

(***************************************************************************)
(* SpecYearList: Copyright::try_parse applied to one line whose year list  *)
(* is written from given specifiers, under each flag configuration         *)
(***************************************************************************)
\* Specifiers as written, with the raw pair raw_year::parse::year_spec reads
WrittenSpecs ==
    {[text |-> <<"2", "0", "2", "0">>, raw |-> <<FourDigit(2020), FourDigit(2020)>>],
     [text |-> <<"9", "5">>, raw |-> <<TwoDigit(95), TwoDigit(95)>>],
     [text |-> <<"2", "0", "-", "2", "0">>, raw |-> <<TwoDigit(20), TwoDigit(20)>>],
     [text |-> <<"2", "0", "1", "9", " ", "-", " ", "2", "0", "1", "9">>, raw |-> <<FourDigit(2019), FourDigit(2019)>>],
     [text |-> <<"9", "5", "-", "2", "0">>, raw |-> <<TwoDigit(95), TwoDigit(20)>>],
     [text |-> <<"1", "9", "9", "5", "-", "2", "0">>, raw |-> <<FourDigit(1995), TwoDigit(20)>>],
     [text |-> <<"2", "0", "-", "1", "0">>, raw |-> <<TwoDigit(20), TwoDigit(10)>>],
     [text |-> <<"2", "0", "1", "8", "-", "2", "0", "1", "9">>, raw |-> <<FourDigit(2018), FourDigit(2019)>>]}

MaxWrittenSpecs == 2

\* The line: the specifiers separated by ", ", then ", Foo"
WrittenLine(specs) ==
    join([i \in 1..Len(specs) |-> specs[i].text], <<",", " ">>) \o <<",", " ", "F", "o", "o">>

InitYearList ==
    /\ pc = "written"
    /\ options \in AllOptions
    /\ TransIdle
    /\ SummIdle
    /\ AtomsIdle
    /\ CoalesceIdle
    /\ ContainIdle
    /\ CoerceIdle
    /\ YearsIdle
    /\ ParseIdle
    /\ PrefixIdle
    /\ TreeIdle
    /\ written_specs \in UNION {[1..n -> WrittenSpecs] : n \in 1..MaxWrittenSpecs}
    /\ written_line = WrittenLine(written_specs)
    /\ written_parsed = None

\* Copyright::try_parse(options, line)
TryParseWrittenLine ==
    /\ pc = "written"
    /\ pc' = "parsed"
    /\ written_parsed' = Some(try_parse(options, written_line))
    /\ UNCHANGED <<options, written_specs, written_line, yearVars, parseVars, prefixVars, treeVars, coerceVars, containVars, coalesceVars, atomVars, summVars, transVars>>

\* raw_year::parse::year_spec on each specifier as written
ReadRawSpecs ==
    /\ pc = "parsed"
    /\ pc' = "read"
    /\ \A k \in 1..Len(written_specs) :
           parse_year_spec(written_specs[k].text, 1)
               = POk(Len(written_specs[k].text) + 1, written_specs[k].raw)
    /\ UNCHANGED <<options, writtenVars, yearVars, parseVars, prefixVars, treeVars, coerceVars, containVars, coalesceVars, atomVars, summVars, transVars>>

NextYearList == TryParseWrittenLine \/ ReadRawSpecs

SpecYearList == InitYearList /\ [][NextYearList]_vars

(***************************************************************************)
(* SpecTransitive: Copyright::contains between three statements returned   *)
(* by Copyright::try_parse, under each flag configuration                  *)
(***************************************************************************)
TransTexts ==
    {<<"2", "0", "1", "8", "-", "2", "0", "2", "4", ",", " ", "F", "o", "o">>,
     <<"2", "0", "1", "9", "-", "2", "0", "2", "3", ",", " ", "F", "o", "o">>,
     <<"2", "0", "2", "0", ",", " ", "2", "0", "2", "2", ",", " ", "F", "o", "o">>,
     <<"2", "0", "2", "0", ",", " ", "F", "o", "o">>,
     <<"9", "8", "-", "2", "2", ",", " ", "F", "o", "o">>,
     <<"2", "0", "2", "2", ",", " ", "B", "a", "r">>,
     <<"2", "0", "2", "0", ",", " ", "F", "o", "o", "\n", "2", "0", "2", "2", ",", " ", "B", "a", "r">>,
     <<"2", "0", "1", "8", "-", "2", "0", "2", "4", ",", " ", "F", "o", "o", "\n", "2", "0", "2", "1", "-", "2", "0", "2", "3", ",", " ", "B", "a", "r">>,
     <<"A", "l", "l", " ", "r", "i", "g", "h", "t", "s", " ", "r", "e", "s", "e", "r", "v", "e", "d">>}

InitTransitive ==
    /\ pc = "three_texts"
    /\ options \in AllOptions
    /\ WrittenIdle
    /\ SummIdle
    /\ AtomsIdle
    /\ CoalesceIdle
    /\ ContainIdle
    /\ YearsIdle
    /\ ParseIdle
    /\ PrefixIdle
    /\ TreeIdle
    /\ CoerceIdle
    /\ trans_texts \in TransTexts \X TransTexts \X TransTexts
    /\ trans_parsed = << >>
    /\ trans_contains = None

\* Copyright::try_parse on each of the three texts
TryParseThree ==
    /\ pc = "three_texts"
    /\ trans_parsed' = [k \in 1..3 |-> try_parse(options, trans_texts[k])]
    /\ pc' = IF \A k \in 1..3 : trans_parsed'[k].status = "ok"
             THEN "three_statements" ELSE "failed"
    /\ UNCHANGED <<options, trans_texts, trans_contains, yearVars, parseVars, prefixVars, treeVars, coerceVars, containVars, coalesceVars, atomVars, summVars, writtenVars>>

\* Copyright::contains on the pairs (a, b), (b, c) and (a, c)
ContainsThree ==
    /\ pc = "three_statements"
    /\ pc' = "compared"
    /\ trans_contains' =
           Some([ab |-> Copyright_contains(trans_parsed[1].val, trans_parsed[2].val),
                 bc |-> Copyright_contains(trans_parsed[2].val, trans_parsed[3].val),
                 ac |-> Copyright_contains(trans_parsed[1].val, trans_parsed[3].val)])
    /\ UNCHANGED <<options, trans_texts, trans_parsed, yearVars, parseVars, prefixVars, treeVars, coerceVars, containVars, coalesceVars, atomVars, summVars, writtenVars>>

NextTransitive == TryParseThree \/ ContainsThree

SpecTransitive == InitTransitive /\ [][NextTransitive]_vars

(***************************************************************************)
(* Properties of the data tree and of the emitted paragraphs               *)
(***************************************************************************)
Emitted == pc \in {"emitted", "emitted_unpropagated"}

\* The covering nodes of the emission, chunk after chunk
CoveringIds ==
    UNION {{grouped[i].ids[k] : k \in 1..Len(grouped[i].ids)} : i \in 1..Len(grouped)}

\* C1: make_paragraphs emits the smallest possible set of paragraphs: no two
\* paragraphs carry the same metadata id, and there are as many paragraphs as
\* there are distinct metadata ids among the covering nodes (here for the trees
\* that went through propagate_metadata).
C1_SmallestSetOfParagraphs ==
    pc = "emitted" =>
        /\ \A i, j \in 1..Len(grouped) : i # j => grouped[i].key # grouped[j].key
        /\ Len(paras) = Cardinality({cdt.tree_arena[id].metadata : id \in CoveringIds})

\* The metadata accumulate interns for a record
CleanedMetadata(item) ==
    Metadata(join(cleanup_copyright_text(item.copyright_text), <<"\n">>),
             item.license_information_in_file)

\* The file names as accumulate inserts them
InsertedNames ==
    {trim_start_matches(file_records[i].file_name, <<".", "/">>) : i \in 1..Len(file_records)}

\* Every record is a file directly under src/, each file once
AllDirectlyUnderSrc ==
    /\ Cardinality(InsertedNames) = Len(file_records)
    /\ \A name \in InsertedNames :
           /\ Len(name) > 4
           /\ SubSeq(name, 1, 4) = <<"s", "r", "c", "/">>
           /\ \A k \in 5..Len(name) : name[k] # "/"

AllIdentical ==
    \A i, j \in 1..Len(file_records) :
        /\ file_records[i].copyright_text = file_records[j].copyright_text
        /\ file_records[i].license_information_in_file = file_records[j].license_information_in_file

\* C2 as stated: ten files directly under src/ with identical metadata give, after
\* propagate_metadata, exactly one paragraph whose Files field is src/*.
C2_OneParagraphSrcWildcard ==
    (pc = "emitted" /\ Len(file_records) = NumFiles /\ AllDirectlyUnderSrc /\ AllIdentical) =>
        /\ Len(paras) = 1
        /\ paras[1].files = <<"s", "r", "c", "/", "*">>

\* C2, amended: ten files directly under src/ with identical metadata give, after
\* propagate_metadata, exactly one paragraph, and its Files field is * (the
\* promotion goes on from src to the root, whose only child is src).
C2_OneParagraphRootWildcard ==
    (pc = "emitted" /\ Len(file_records) = NumFiles /\ AllDirectlyUnderSrc /\ AllIdentical) =>
        /\ Len(paras) = 1
        /\ paras[1].files = <<"*">>

C2_Witness ==
    /\ pc = "emitted"
    /\ Len(file_records) = NumFiles
    /\ AllDirectlyUnderSrc
    /\ AllIdentical
    /\ cdt.tree_arena[cdt.root].metadata # None
    /\ Len(paras) = 1
    /\ paras[1].files = <<"*">>

\* Record c differs from all the others in its license or in its copyright text,
\* and the others agree
ChangedRecord(c) ==
    \A i \in 1..Len(file_records) : i # c =>
        /\ \A j \in 1..Len(file_records) : j # c =>
               /\ file_records[i].copyright_text = file_records[j].copyright_text
               /\ file_records[i].license_information_in_file = file_records[j].license_information_in_file
        /\ \/ file_records[i].copyright_text # file_records[c].copyright_text
           \/ file_records[i].license_information_in_file # file_records[c].license_information_in_file

\* The same, and the difference is still there in the metadata accumulate interns
ChangedMetadata(c) ==
    /\ ChangedRecord(c)
    /\ \A i \in 1..Len(file_records) : i # c =>
           CleanedMetadata(file_records[i]) # CleanedMetadata(file_records[c])

\* The lines of the Files fields of all paragraphs
FilesLines ==
    UNION {{split(paras[i].files, "\n")[k] : k \in 1..Len(split(paras[i].files, "\n"))} :
               i \in 1..Len(paras)}

HasWildcard(files) == \E k \in 1..Len(files) : files[k] = "*"

\* C3 as stated: with one of the ten files changed, there are at least two
\* paragraphs and one of them lists the unaffected files through a wildcard.
C3_MajorityStillWildcarded ==
    (pc = "emitted" /\ Len(file_records) = NumFiles /\ AllDirectlyUnderSrc
        /\ \E c \in 1..Len(file_records) : ChangedRecord(c)) =>
        /\ Len(paras) >= 2
        /\ \E i \in 1..Len(paras) : HasWildcard(paras[i].files)

\* C3, amended: with one of the ten files changed so that its cleaned metadata
\* differs, there are at least two paragraphs and none of them uses a wildcard:
\* every file, the unaffected ones included, is listed by its bare path.
C3_ChangedFileEndsPromotion ==
    (pc = "emitted" /\ Len(file_records) = NumFiles /\ AllDirectlyUnderSrc
        /\ \E c \in 1..Len(file_records) : ChangedMetadata(c)) =>
        /\ Len(paras) >= 2
        /\ \A i \in 1..Len(paras) : ~HasWildcard(paras[i].files)
        /\ FilesLines = {process_file_pattern(name) : name \in InsertedNames}

C3_Witness ==
    /\ pc = "emitted"
    /\ Len(file_records) = NumFiles
    /\ AllDirectlyUnderSrc
    /\ \E c \in 1..Len(file_records) : ChangedMetadata(c)
    /\ Len(paras) >= 2
    /\ \A i \in 1..Len(paras) : ~HasWildcard(paras[i].files)

\* The resummarized statement of chunk i: the stored text parsed again, the
\* summarizer fed once per covering node of the chunk, its single output rendered
Resummarized(i) ==
    LET RECURSIVE Feed(_, _, _)
        Feed(s, entry, n) ==
            IF n = 0 \/ s.status # "ok" THEN s
            ELSE Feed(SubtreeSummarizer_accumulate(s.val, Some(entry.copyright),
                                                   Some(entry.license), grouped[i].key[1]),
                      entry, n - 1)
        Render(results) ==
            IF results.status # "ok" \/ Cardinality(results.val) # 1 THEN Panic
            ELSE Ok(Copyright_to_string((CHOOSE o \in results.val : TRUE).metadata.copyright))
        Results(s) == IF s.status # "ok" THEN Panic ELSE Render(into_results(s.val))
        Decomposed(t) ==
            IF t.status # "ok" THEN Panic
            ELSE Results(Feed(Ok(SubtreeSummarizer_default),
                              t.val.metadata.vec[grouped[i].key[1] + 1],
                              Len(grouped[i].ids)))
    IN  Decomposed(perform_copyright_decomposition(cdt, options))

\* C4: the Copyright field of each paragraph is the rendered resummarized
\* statement of its group (one line per holder, with the holder's coalesced year
\* ranges), wherever the resummarization of the group yields a statement.
C4_CopyrightIsResummarized ==
    Emitted =>
        \A i \in 1..Len(paras) :
            LET Same(r) == r.status = "ok" => paras[i].copyright = r.val
            IN  Same(Resummarized(i))

(***************************************************************************)
(* Properties of the statement parser (SpecParse, SpecPrefix)              *)
(***************************************************************************)
\* A line with a leading "copyright (c)" (any letter case) and the whitespace
\* after it taken off
WithoutPrefixC(line) ==
    IF tag_no_case(line, 1, TagCopyrightC)
    THEN SubSeq(line, multispace0(line, 1 + Len(TagCopyrightC)), Len(line))
    ELSE line

\* The i-th line of the statement is written in the line grammar: an optional
\* prefix, with "copyright (c)" among the prefixes, then years, a comma and
\* the holder
LineInGrammar(i) ==
    all_consuming_copyright_line(
        WithoutPrefixC(LineForms[input_lines[i]].text), options).status = "ok"

AllLinesInGrammar == \A i \in 1..Len(input_lines) : LineInGrammar(i)

\* What a reader takes from the i-th line of the statement
ExpectedLine(i) ==
    [years |-> LineForms[input_lines[i]].years,
     holder |-> LineForms[input_lines[i]].holder]

\* C5: the permissive parse is total and drops nothing: whenever the text is
\* not entirely made of lines matching the line grammar (also when its first
\* lines match and are followed by other text), try_parse returns Ok with
\* the opaque variant holding the trimmed original text.  Stated here for
\* the texts on which try_parse returns at all; on a descending four-digit
\* range it does not return (C8).
C5_PermissiveParseTotal ==
    (pc = "done" /\ parsed.status # "panic" /\ ~AllLinesInGrammar) =>
        /\ parsed.status = "ok"
        /\ parsed.val = Complex(trim(statement))

\* C6: one line matching the line grammar parses to the single-statement
\* variant; n >= 2 matching lines (blank lines between them tolerated) parse
\* to the multi-line variant with exactly n entries, the i-th entry holding
\* the years of the i-th line in written order and its trimmed holder.
C6_MatchingLinesDecompose ==
    (pc = "done" /\ AllLinesInGrammar) =>
        LET n == Len(input_lines)
        IN  /\ parsed.status = "ok"
            /\ parsed.val.text = << >>
            /\ parsed.val.kind =
                   (IF n = 1 THEN "Decomposable" ELSE "MultilineDecomposable")
            /\ parsed.val.lines = [i \in 1..n |-> ExpectedLine(i)]

\* C7: each of the prefixes "copyright", "copyright (c)" and "copr", in any
\* letter case and followed by optional whitespace, is accepted in front of
\* the year list: the prefixed line decomposes to the same years and holder
\* as the line without the prefix.
C7_PrefixesAccepted ==
    pc = "done" =>
        /\ prefixed_line.status = bare_line.status
        /\ prefixed_line.status = "ok" => prefixed_line.val = bare_line.val

(***************************************************************************)
(* Properties of range normalization (SpecYears)                           *)
(***************************************************************************)
BothKinds(k1, k2) == raw_range[1].kind = k1 /\ raw_range[2].kind = k2

\* C8: a four-digit/four-digit range whose begin is greater than its end is a
\* non-fatal grammar failure under every flag configuration: normalization
\* does not succeed, no YearRange with begin > end is built, nothing aborts,
\* and the year specifier fails to parse.
C8_ImproperRangeFailsSoftly ==
    (/\ pc = "done"
     /\ BothKinds("FourDigit", "FourDigit")
     /\ raw_range[1].y > raw_range[2].y)
        => (normalized = None /\ year_spec_result = Err)

\* C9: for a two-digit/two-digit pair (b, e) with b # e normalization succeeds,
\* when b < e, iff allow_century_guess is set, both years taking the century
\* guessed from b (2000s below 60, 1900s otherwise); when b > e, iff
\* allow_assuming_y2k_span is set, giving (1900 + b, 2000 + e).  No other flag
\* has any influence.
C9_TwoDigitPair ==
    (/\ pc \in {"normalized", "done"}
     /\ BothKinds("TwoDigit", "TwoDigit")
     /\ raw_range[1].y # raw_range[2].y)
        => LET b == raw_range[1].y
               e == raw_range[2].y
               base == IF b < 60 THEN 2000 ELSE 1900
           IN  IF b < e
               THEN normalized = (IF options.allow_century_guess
                                  THEN Some(<<base + b, base + e>>)
                                  ELSE None)
               ELSE normalized = (IF options.allow_assuming_y2k_span
                                  THEN Some(<<1900 + b, 2000 + e>>)
                                  ELSE None)

\* C9 witness: 95-20 has been normalized to 1995-2020 with only the Y2K-span flag set
C9_Witness ==
    /\ pc = "done"
    /\ raw_range = <<TwoDigit(95), TwoDigit(20)>>
    /\ options.allow_assuming_y2k_span
    /\ ~options.allow_century_guess
    /\ ~options.allow_mixed_size_implied_century_rollover
    /\ normalized = Some(<<1995, 2020>>)

\* C10: in a mixed-size pair the two-digit endpoint takes its century from the
\* four-digit endpoint.  Four/two (B, e): if e >= B mod 100 the result is
\* (B, e in B's century) under every flag setting, otherwise it succeeds iff
\* allow_mixed_size_implied_century_rollover is set, with e in the century
\* after B's.  Two/four (b, E) mirrors it: b in E's century when
\* b <= E mod 100, otherwise, only with the rollover flag, in the century
\* before E's.
C10_MixedSizePair ==
    /\ (pc \in {"normalized", "done"} /\ BothKinds("FourDigit", "TwoDigit"))
        => LET B == raw_range[1].y
               e == raw_range[2].y
               hundreds == (B \div 100) * 100
           IN  IF e >= B % 100
               THEN normalized = Some(<<B, hundreds + e>>)
               ELSE normalized =
                        (IF options.allow_mixed_size_implied_century_rollover
                         THEN Some(<<B, hundreds + 100 + e>>)
                         ELSE None)
    /\ (pc \in {"normalized", "done"} /\ BothKinds("TwoDigit", "FourDigit"))
        => LET b == raw_range[1].y
               E == raw_range[2].y
               hundreds == (E \div 100) * 100
           IN  IF b <= E % 100
               THEN normalized = Some(<<hundreds + b, E>>)
               ELSE normalized =
                        (IF options.allow_mixed_size_implied_century_rollover
                         THEN Some(<<hundreds - 100 + b, E>>)
                         ELSE None)

\* C10 witness: (1995, 20) has been normalized to (1995, 2020) with the rollover flag alone
C10_Witness ==
    /\ pc = "done"
    /\ raw_range = <<FourDigit(1995), TwoDigit(20)>>
    /\ options.allow_mixed_size_implied_century_rollover
    /\ ~options.allow_century_guess
    /\ ~options.allow_assuming_y2k_span
    /\ normalized = Some(<<1995, 2020>>)

(***************************************************************************)
(* Properties of the coercion of a single year (SpecCoerce)                *)
(***************************************************************************)
\* C11: to_four_digit of a two-digit year y is 2000 + y when y < 60 and 1900 + y
\* otherwise; a four-digit year comes back unchanged, with or without a century hint.
C11_ToFourDigit ==
    /\ (coerced # None /\ raw_year.kind = "TwoDigit") =>
           coerced[1] = (IF raw_year.y < 60 THEN 2000 ELSE 1900) + raw_year.y
    /\ (coerced # None /\ raw_year.kind = "FourDigit") => coerced[1] = raw_year.y
    /\ (coerced_with_hint # None /\ raw_year.kind = "FourDigit") =>
           coerced_with_hint[1] = raw_year.y

C11_Witness ==
    /\ raw_year = FourDigit(1995)
    /\ century_hint = 21
    /\ coerced = Some(1995)
    /\ coerced_with_hint = Some(1995)

\* C12 as stated: at the threshold, two-digit 59 is coerced to 1959 and two-digit
\* 60 to 1960.
C12_Threshold1959 ==
    /\ (coerced # None /\ raw_year = TwoDigit(59)) => coerced[1] = 1959
    /\ (coerced # None /\ raw_year = TwoDigit(60)) => coerced[1] = 1960

\* C12, amended: at the threshold, two-digit 59 is coerced to 2059 and two-digit
\* 60 to 1960.
C12_Threshold2059 ==
    /\ (coerced # None /\ raw_year = TwoDigit(59)) => coerced[1] = 2059
    /\ (coerced # None /\ raw_year = TwoDigit(60)) => coerced[1] = 1960

C12_Witness ==
    /\ raw_year = TwoDigit(59)
    /\ coerced = Some(2059)
    /\ coerced_with_hint = None

(***************************************************************************)
(* Properties of containment (SpecContains)                                *)
(***************************************************************************)
\* The years a specifier stands for
YearsOf(ys) == ys.begin..ys.end

\* Line a covers line b: same trimmed holder, and each specifier of b stands for
\* years that are all among the years of one specifier of a
LineCovers(a, b) ==
    /\ trim(a.holder) = trim(b.holder)
    /\ \A j \in 1..Len(b.years) :
           \E i \in 1..Len(a.years) : YearsOf(b.years[j]) \subseteq YearsOf(a.years[i])

BothDecomposed ==
    /\ pc = "statements"
    /\ contained # None
    /\ contain_self[1].kind # "Complex"
    /\ contain_other[1].kind # "Complex"

\* The two-line statement of the example, in both orders of its lines
TwoLiners ==
    {<<"C", "o", "p", "y", "r", "i", "g", "h", "t", " ", "2", "0", "2", "4", ",", " ", "R", "y", "l", "i", "e", " ", "P", "a", "v", "l", "i", "k", "\n", " ", " ", " ", " ", " ", " ", " ", " ", "C", "o", "p", "y", "r", "i", "g", "h", "t", " ", "2", "0", "2", "0", ",", " ", "2", "0", "2", "2", "-", "2", "0", "2", "4", ",", " ", "C", "o", "l", "l", "a", "b", "o", "r", "a", ",", " ", "L", "t", "d", ".">>,
     <<"2", "0", "2", "0", ",", " ", "2", "0", "2", "2", "-", "2", "0", "2", "4", ",", " ", "C", "o", "l", "l", "a", "b", "o", "r", "a", ",", " ", "L", "t", "d", ".", "\n", "2", "0", "2", "4", ",", " ", "R", "y", "l", "i", "e", " ", "P", "a", "v", "l", "i", "k">>}

\* C13: containment between statements with several lines is a coverage test:
\* self contains other iff every line of other is covered by at least one line of
\* self, whatever the order and the number of the lines; the two-line statement of
\* the example contains "2024, Rylie Pavlik" and "2022-2023, Collabora, Ltd." and
\* neither "2021, Collabora, Ltd." nor "2021-2023, Collabora, Ltd.".
C13_CoverageOfLines ==
    /\ BothDecomposed =>
           contained[1] =
               \A j \in 1..Len(contain_other[1].lines) :
                   \E i \in 1..Len(contain_self[1].lines) :
                       LineCovers(contain_self[1].lines[i], contain_other[1].lines[j])
    /\ (pc = "statements" /\ contained # None /\ contain_texts # << >>
            /\ contain_texts[1] \in TwoLiners) =>
           /\ contain_texts[2] \in {<<"C", "o", "p", "y", "r", "i", "g", "h", "t", " ", "2", "0", "2", "4", ",", " ", "R", "y", "l", "i", "e", " ", "P", "a", "v", "l", "i", "k">>,
                                    <<"C", "o", "p", "y", "r", "i", "g", "h", "t", " ", "2", "0", "2", "2", "-", "2", "0", "2", "3", ",", " ", "C", "o", "l", "l", "a", "b", "o", "r", "a", ",", " ", "L", "t", "d", ".">>}
                  => contained[1] = TRUE
           /\ contain_texts[2] \in {<<"C", "o", "p", "y", "r", "i", "g", "h", "t", " ", "2", "0", "2", "1", ",", " ", "C", "o", "l", "l", "a", "b", "o", "r", "a", ",", " ", "L", "t", "d", ".">>,
                                    <<"C", "o", "p", "y", "r", "i", "g", "h", "t", " ", "2", "0", "2", "1", "-", "2", "0", "2", "3", ",", " ", "C", "o", "l", "l", "a", "b", "o", "r", "a", ",", " ", "L", "t", "d", ".">>}
                  => contained[1] = FALSE

C13_Witness ==
    /\ pc = "statements"
    /\ contain_texts = <<<<"2", "0", "2", "0", ",", " ", "2", "0", "2", "2", "-", "2", "0", "2", "4", ",", " ", "C", "o", "l", "l", "a", "b", "o", "r", "a", ",", " ", "L", "t", "d", ".", "\n", "2", "0", "2", "4", ",", " ", "R", "y", "l", "i", "e", " ", "P", "a", "v", "l", "i", "k">>,
                         <<"C", "o", "p", "y", "r", "i", "g", "h", "t", " ", "2", "0", "2", "2", "-", "2", "0", "2", "3", ",", " ", "C", "o", "l", "l", "a", "b", "o", "r", "a", ",", " ", "L", "t", "d", ".">>>>
    /\ contain_self[1].kind = "MultilineDecomposable"
    /\ contained = Some(TRUE)

\* Specifier a contains specifier b, by the endpoints
SpecWithin(a, b) ==
    CASE a.kind = "ClosedRange" /\ b.kind = "SingleYear" ->
             a.begin <= b.begin /\ b.begin <= a.end
      [] a.kind = "ClosedRange" /\ b.kind = "ClosedRange" ->
             a.begin <= b.begin /\ b.end <= a.end
      [] a.kind = "SingleYear" /\ b.kind = "SingleYear" -> a.begin = b.begin
      [] OTHER -> b.begin = a.begin /\ b.end = a.begin

\* C14: for two single statements a and b, a.contains(b) iff the trimmed holders
\* are equal and every specifier of b lies within one single specifier of a: a
\* range [p, q] contains a year y iff p <= y <= q and a range [r, s] iff p <= r and
\* s <= q; a single year y contains only the year y and the range [y, y].
C14_SingleStatements ==
    (BothDecomposed /\ contain_self[1].kind = "Decomposable"
        /\ contain_other[1].kind = "Decomposable") =>
        contained[1] =
            (/\ trim(contain_self[1].lines[1].holder) = trim(contain_other[1].lines[1].holder)
             /\ \A j \in 1..Len(contain_other[1].lines[1].years) :
                    \E i \in 1..Len(contain_self[1].lines[1].years) :
                        SpecWithin(contain_self[1].lines[1].years[i],
                                   contain_other[1].lines[1].years[j]))

C14_Witness ==
    /\ pc = "statements"
    /\ contain_self = Some(Decomposable([years |-> <<ClosedRange(2019, 2021)>>, holder |-> <<" ", "F", "o", "o">>]))
    /\ contain_other = Some(Decomposable([years |-> <<SingleYear(2020)>>, holder |-> <<"F", "o", "o", " ">>]))
    /\ contained = Some(TRUE)

\* C15: containment is reflexive on parser output: a statement returned by a
\* successful parse, under any flags, contains itself; an opaque statement
\* contains, and is contained by, only an opaque statement with the same text.
C15_ReflexiveOnParserOutput ==
    /\ (pc = "statements" /\ contained # None /\ contain_texts # << >>
            /\ contain_self = contain_other) => contained[1] = TRUE
    /\ (pc = "statements" /\ contained # None
            /\ "Complex" \in {contain_self[1].kind, contain_other[1].kind}) =>
           contained[1] = (/\ contain_self[1].kind = contain_other[1].kind
                           /\ contain_self[1].text = contain_other[1].text)

C15_Witness ==
    /\ pc = "statements"
    /\ contain_texts # << >>
    /\ contain_texts[1] = <<"9", "5", "-", "2", "0", ",", " ", "C", "o", "l", "l", "a", "b", "o", "r", "a", ",", " ", "L", "t", "d", ".">>
    /\ contain_texts[2] = contain_texts[1]
    /\ contain_self[1].kind = "Decomposable"
    /\ contain_self = contain_other
    /\ contained = Some(TRUE)

(***************************************************************************)
(* Properties of the year range coalescer (SpecCoalesce)                   *)
(***************************************************************************)
\* The years covered by the ranges of a sequence
CoveredYears(ranges) == UNION {ranges[i].begin..ranges[i].end : i \in 1..Len(ranges)}

\* The ranges of a sequence, as a set
RangeSet(ranges) == {ranges[i] : i \in 1..Len(ranges)}

\* C16: whatever the specifiers accumulated into a YearRangeCollection, and in
\* whatever order, into_coalesced_vec returns the minimal sorted set of disjoint
\* ranges: begins strictly ascending, each range ending at least two years before
\* the next one begins, and the covered years those of the input; [2018,2019] and
\* [2020,2022] give [2018,2022], [2018,2019] and [2021,2022] stay two ranges.
C16_MinimalSortedDisjoint ==
    coalesced_vec # None =>
        /\ \A i \in 1..Len(coalesced_vec[1]) :
               coalesced_vec[1][i].begin <= coalesced_vec[1][i].end
        /\ \A i \in 1..(Len(coalesced_vec[1]) - 1) :
               /\ coalesced_vec[1][i].begin < coalesced_vec[1][i + 1].begin
               /\ coalesced_vec[1][i].end + 2 <= coalesced_vec[1][i + 1].begin
        /\ CoveredYears(coalesced_vec[1]) = CoveredYears(years_heap)
        /\ (Len(years_heap) = 2
                /\ RangeSet(years_heap) = {YearRange(2018, 2019), YearRange(2020, 2022)})
               => coalesced_vec[1] = <<YearRange(2018, 2022)>>
        /\ (Len(years_heap) = 2
                /\ RangeSet(years_heap) = {YearRange(2018, 2019), YearRange(2021, 2022)})
               => coalesced_vec[1] = <<YearRange(2018, 2019), YearRange(2021, 2022)>>

C16_Witness ==
    /\ years_heap = <<YearRange(2021, 2021), YearRange(2018, 2022), YearRange(2019, 2020)>>
    /\ coalesced_vec = Some(<<YearRange(2018, 2022)>>)

\* C17: coalescing is idempotent for any sequence of ranges v, given in any order:
\* coalesce_years(coalesce_years(v)) equals coalesce_years(v).
C17_CoalesceIdempotent ==
    coalesced_twice # None => coalesced_twice = coalesced_once

(***************************************************************************)
(* Properties of the interning table (SpecAtoms)                           *)
(***************************************************************************)
\* The ids of a table
IdsOf(table) == 0..(Len(table.vec) - 1)

\* C18: after any sequence of get_or_create calls, get_or_create(v) returns the id
\* returned before for an equal value and leaves the table as it was, or, for a
\* value not seen before, the next id n, n being the number of distinct values
\* seen until then; so the ids are dense 0..n-1, get_value(get_id(v)) = v for
\* every stored v, and distinct values never share an id.
C18_GetOrCreate ==
    /\ atom_id # None =>
           IF \E i \in IdsOf(atom_before) : get_value(atom_before, i) = atom_value
           THEN /\ get_value(atom_before, atom_id[1]) = atom_value
                /\ atom_table = atom_before
           ELSE /\ atom_id[1] = Cardinality(atom_seen \ {atom_value[1]})
                /\ get_value(atom_table, atom_id[1]) = atom_value
                /\ \A i \in IdsOf(atom_before) :
                       get_value(atom_table, i) = get_value(atom_before, i)
    /\ pc = "interning" =>
           /\ Len(atom_table.vec) = Cardinality(atom_seen)
           /\ \A v \in atom_seen :
                  /\ get_id(atom_table, v) # None
                  /\ get_id(atom_table, v)[1] \in IdsOf(atom_table)
                  /\ get_value(atom_table, get_id(atom_table, v)[1]) = Some(v)
           /\ \A v \in AtomValues \ atom_seen : get_id(atom_table, v) = None
           /\ \A v, w \in atom_seen :
                  get_id(atom_table, v) = get_id(atom_table, w) => v = w

C18_Witness ==
    /\ pc = "interning"
    /\ atom_seen = {"a", "b", "c"}
    /\ atom_value = Some("b")
    /\ atom_before.vec = <<"c", "b", "a">>
    /\ atom_table = atom_before
    /\ atom_id = Some(1)

\* The mapping sends two ids of the table to the same output value
Collides(table, f) ==
    \E i, j \in IdsOf(table) :
        i # j /\ f[get_value(table, i)[1]] = f[get_value(table, j)[1]]

\* C19: transform with the mapping f returns a new table with the same ids: every
\* id i of the source stands for f(source value of i), and no id is added, lost or
\* renumbered; when f sends two distinct ids to equal values the call aborts and
\* returns no table; the source table is never modified.
C19_Transform ==
    transformed # None =>
        /\ atom_table = atom_before
        /\ IF Collides(atom_table, atom_f[1])
           THEN transformed[1] = Panic
           ELSE /\ transformed[1].status = "ok"
                /\ IdsOf(transformed[1].val) = IdsOf(atom_table)
                /\ \A i \in IdsOf(atom_table) :
                       /\ get_value(transformed[1].val, i)
                              = Some(atom_f[1][get_value(atom_table, i)[1]])
                       /\ get_id(transformed[1].val,
                                 atom_f[1][get_value(atom_table, i)[1]]) = Some(i)
                /\ \A u \in TransformedValues :
                       get_id(transformed[1].val, u) # None
                           => \E i \in IdsOf(atom_table) :
                                  u = atom_f[1][get_value(atom_table, i)[1]]

C19_Witness ==
    /\ pc = "transformed"
    /\ atom_table.vec = <<"b", "a", "d">>
    /\ atom_f[1]["a"] = "x" /\ atom_f[1]["b"] = "y" /\ atom_f[1]["c"] = "y" /\ atom_f[1]["d"] = "z"
    /\ transformed[1].status = "ok"
    /\ transformed[1].val.vec = <<"y", "x", "z">>

C19_WitnessAbort ==
    /\ pc = "transformed"
    /\ atom_table.vec = <<"b", "a", "d">>
    /\ atom_f[1]["a"] = "x" /\ atom_f[1]["b"] = "y" /\ atom_f[1]["d"] = "x"
    /\ transformed = Some(Panic)

(***************************************************************************)
(* Properties of the insertions into the data tree (SpecInsert)            *)
(***************************************************************************)
\* The path segments from below the root down to node n
SegmentsOf(arena, n) ==
    LET RECURSIVE Up(_)
        Up(k) == IF arena[k].parent = None THEN << >>
                 ELSE Append(Up(arena[k].parent[1]), arena[k].path_segment)
    IN  Up(n)

\* The segment paths of all the nodes of the arena
NodePaths(arena) == {SegmentsOf(arena, n) : n \in 1..Len(arena)}

\* The segments of the path an insertion of the record walks
InsertedSegments(item) == split(trim_start_matches(item.file_name, <<".", "/">>), "/")

NoTwoChildrenWithSameSegment ==
    \A n \in 1..Len(cdt.tree_arena) :
        \A i, j \in 1..Len(cdt.tree_arena[n].children) :
            cdt.tree_arena[cdt.tree_arena[n].children[i]].path_segment
                = cdt.tree_arena[cdt.tree_arena[n].children[j]].path_segment
            => i = j

\* One insertion, from the arena before to the arena after
InsertionCreatesOnlyMissingNodes(old, new, segments) ==
    /\ Len(new) >= Len(old)
    /\ Len(new) = Cardinality(NodePaths(new))
    /\ NodePaths(new) =
           NodePaths(old) \cup {SubSeq(segments, 1, k) : k \in 1..Len(segments)}
    /\ \A n \in 1..Len(old) :
           /\ SegmentsOf(new, n) = SegmentsOf(old, n)
           /\ SegmentsOf(old, n) # segments => new[n].metadata = old[n].metadata
    /\ \A n \in 1..Len(new) :
           /\ SegmentsOf(new, n) = segments => new[n].metadata # None
           /\ (n > Len(old) /\ SegmentsOf(new, n) # segments) => new[n].metadata = None

\* C20: after any sequence of insertions no node has two children with the same
\* path segment; an insertion creates only the nodes missing along its path and
\* sets the metadata id of the terminal node of the path only: the metadata of
\* every other node is as before, and new intermediate nodes carry none.
C20_InsertionsKeepTheTree ==
    /\ []NoTwoChildrenWithSameSegment
    /\ [][consumed' = consumed + 1 =>
              InsertionCreatesOnlyMissingNodes(cdt.tree_arena, cdt'.tree_arena,
                  InsertedSegments(file_records[consumed + 1]))]_vars

C20_Witness ==
    /\ pc = "extend"
    /\ consumed = 3
    /\ file_records[1].file_name = <<"d", "/", "a", "/", "b">>
    /\ file_records[2].file_name = <<"d">>
    /\ file_records[3].file_name = <<".", "/", "d", "/", "a">>
    /\ file_records[3].copyright_text = None
    /\ Len(cdt.tree_arena) = 4
    /\ cdt.tree_arena[2].metadata = Some(1)
    /\ cdt.tree_arena[3].metadata = Some(1)
    /\ cdt.tree_arena[4].metadata = Some(0)

(***************************************************************************)
(* Properties of the promotion and of the emission (SpecInsert)            *)
(***************************************************************************)
\* All the direct children of n carry the same Some(m) in the arena
ChildrenShare(arena, n, m) ==
    /\ arena[n].children # << >>
    /\ \A k \in 1..Len(arena[n].children) : arena[arena[n].children[k]].metadata = Some(m)

\* The arena after propagate_metadata against the arena before
PromotedBottomUp(old, new) ==
    /\ Len(new) = Len(old)
    /\ \A n \in 1..Len(old) :
           /\ new[n].children = old[n].children
           /\ new[n].parent = old[n].parent
           /\ new[n].path_segment = old[n].path_segment
           /\ \A m \in 0..Len(old) : ChildrenShare(new, n, m) => new[n].metadata = Some(m)
           /\ (~ \E m \in 0..Len(old) : ChildrenShare(new, n, m))
                  => new[n].metadata = old[n].metadata

\* C21: propagate_metadata works bottom-up and changes a node only by promotion:
\* afterwards every node whose direct children all carry the same Some(m) carries
\* m itself, and a node with no children, or with children that disagree or lack
\* metadata, keeps the metadata it had.
C21_PromotionBottomUp ==
    [][(pc = "extend" /\ pc' = "propagated")
           => PromotedBottomUp(cdt.tree_arena, cdt'.tree_arena)]_vars

C21_Witness ==
    /\ pc = "propagated"
    /\ Len(file_records) = 2
    /\ file_records[1].file_name = <<"d", "/", "a", "/", "b">>
    /\ file_records[2].file_name = <<"e">>
    /\ Len(cdt.tree_arena) = 5
    /\ cdt.tree_arena[1].metadata = None
    /\ cdt.tree_arena[2].metadata = Some(0)
    /\ cdt.tree_arena[3].metadata = Some(0)
    /\ cdt.tree_arena[4].metadata = Some(0)
    /\ cdt.tree_arena[5].metadata = Some(1)

\* The proper ancestors of node n
AncestorsOf(arena, n) ==
    LET RECURSIVE Up(_)
        Up(k) == IF arena[k].parent = None THEN {}
                 ELSE {arena[k].parent[1]} \cup Up(arena[k].parent[1])
    IN  Up(n)

\* The number of nodes the emission gave, chunk after chunk
EmittedCount ==
    LET RECURSIVE Sum(_)
        Sum(i) == IF i = 0 THEN 0 ELSE Len(grouped[i].ids) + Sum(i - 1)
    IN  Sum(Len(grouped))

\* C22: the emission walks the tree top-down, emits a node that carries a metadata
\* id as a covering entry and skips its subtree: no emitted node is a descendant of
\* another emitted node, a node without metadata is never emitted, and every node
\* carrying metadata is emitted itself or lies below exactly one emitted node.
C22_EmissionCoversOnce ==
    Emitted =>
        /\ EmittedCount = Cardinality(CoveringIds)
        /\ \A e \in CoveringIds :
               /\ cdt.tree_arena[e].metadata # None
               /\ AncestorsOf(cdt.tree_arena, e) \cap CoveringIds = {}
        /\ \A n \in 1..Len(cdt.tree_arena) :
               cdt.tree_arena[n].metadata # None =>
                   Cardinality(({n} \cup AncestorsOf(cdt.tree_arena, n)) \cap CoveringIds) = 1

C22_Witness ==
    /\ pc = "emitted_unpropagated"
    /\ Len(file_records) = 3
    /\ file_records[1].file_name = <<"d">>
    /\ file_records[2].file_name = <<"d", "/", "a", "/", "b">>
    /\ file_records[3].file_name = <<"e">>
    /\ cdt.tree_arena[3].metadata = None
    /\ cdt.tree_arena[4].metadata # None
    /\ CoveringIds = {2, 5}

(***************************************************************************)
(* Properties of the resummarization (SpecSummarize)                       *)
(***************************************************************************)
\* The parsed metadata the decomposed table has for an id
ParsedOf(id) == summ_decomposed[1].val.metadata.vec[id + 1]

\* The members of the summarizer: the ids accumulated
MemberIds == {summ_ids[k] : k \in 1..Len(summ_ids)}

HoldersOf(copyright) == {copyright.lines[i].holder : i \in 1..Len(copyright.lines)}

\* The partition of a member: its license list and its set of holders
PartitionOf(id) ==
    [license |-> ParsedOf(id).license, holders |-> HoldersOf(ParsedOf(id).copyright)]

\* The years the holder has in the members of the partition
YearsOfHolderIn(partition, holder) ==
    UNION {UNION {UNION {YearsOf(ParsedOf(id).copyright.lines[i].years[j]) :
                             j \in 1..Len(ParsedOf(id).copyright.lines[i].years)} :
                      i \in {k \in 1..Len(ParsedOf(id).copyright.lines) :
                                 ParsedOf(id).copyright.lines[k].holder = holder}} :
               id \in {m \in MemberIds : PartitionOf(m) = partition}}

\* The specifiers are the coalesced form of the set of years
CoalescedFormOf(years, covered) ==
    /\ UNION {YearsOf(years[i]) : i \in 1..Len(years)} = covered
    /\ \A i \in 1..Len(years) :
           years[i].kind = (IF years[i].begin = years[i].end THEN "SingleYear"
                            ELSE "ClosedRange")
    /\ \A i \in 1..(Len(years) - 1) : years[i].end + 2 <= years[i + 1].begin

\* The output is the statement of the partition
OutputOfPartition(output, partition) ==
    /\ output.metadata.license = partition.license
    /\ HoldersOf(output.metadata.copyright) = partition.holders
    /\ Len(output.metadata.copyright.lines) = Cardinality(partition.holders)
    /\ output.metadata.copyright.kind =
           (IF Cardinality(partition.holders) = 1 THEN "Decomposable"
            ELSE "MultilineDecomposable")
    /\ \A i \in 1..Len(output.metadata.copyright.lines) :
           CoalescedFormOf(output.metadata.copyright.lines[i].years,
                           YearsOfHolderIn(partition,
                                           output.metadata.copyright.lines[i].holder))

\* C23: for every partition (license list, set of holders) of the accumulated
\* members the result has one output with exactly one decomposed entry per holder
\* of the partition, its years the coalesced union of the specifiers the holder has
\* in the members of that partition and of no other; the statement is the single
\* form for one holder and the multi-line form otherwise.
C23_OneEntryPerHolderOfPartition ==
    pc = "results" =>
        /\ summ_results[1].status = "ok"
        /\ \A partition \in {PartitionOf(id) : id \in MemberIds} :
               \E output \in summ_results[1].val : OutputOfPartition(output, partition)

\* C24: when a member's parsed statement is the opaque variant, the run ends at
\* that member: accumulate does not return, the member is neither skipped nor
\* passed on, and nothing follows it.
C24_OpaqueMemberEndsRun ==
    /\ \A k \in 1..Len(summ_ids) :
           ParsedOf(summ_ids[k]).copyright.kind = "Complex" =>
               /\ k = Len(summ_ids)
               /\ pc = "accumulate_panicked"
               /\ summ_results = None
    /\ pc = "accumulate_panicked" =>
           ParsedOf(summ_ids[Len(summ_ids)]).copyright.kind = "Complex"

C24_Witness ==
    /\ pc = "accumulate_panicked"
    /\ summ_ids = <<0, 0, 1>>
    /\ ParsedOf(0).copyright.kind = "MultilineDecomposable"
    /\ ParsedOf(1).copyright = Complex(<<"A", "l", "l", " ", "r", "i", "g", "h", "t", "s", " ", "r", "e", "s", "e", "r", "v", "e", "d">>)
    /\ summ_results = None

\* C28: when every accumulated member is decomposed, into_results ends normally
\* for every set of members: a holder's ranges are always found, also for a holder
\* of more than one partition or of more than one line of a statement.
C28_IntoResultsTerminates ==
    (pc = "results"
        /\ \A id \in MemberIds : ParsedOf(id).copyright.kind # "Complex")
        => summ_results[1].status = "ok"

\* C29: the decomposition is injective on the interned metadata: two distinct
\* Metadata values never give the same (license, parsed statement), so that
\* perform_copyright_decomposition never fails on the transform because of the
\* records.
C29_DecompositionInjective ==
    summ_decomposed # None =>
        /\ \A i, j \in 1..Len(summ_cdt.metadata.vec) :
               (/\ summ_cdt.metadata.vec[i].license = summ_cdt.metadata.vec[j].license
                /\ try_parse(options, summ_cdt.metadata.vec[i].copyright_text)
                       = try_parse(options, summ_cdt.metadata.vec[j].copyright_text))
                   => i = j
        /\ summ_decomposed[1].status = "ok"

(***************************************************************************)
(* Properties of the year list of a line (SpecYearList)                    *)
(***************************************************************************)
\* The specifier is a range whose normalization gives nothing under the flags
FailsNormalization(spec, opts) ==
    /\ spec.raw[1] # spec.raw[2]
    /\ try_to_four_digit_range(spec.raw, opts) = None

\* C25: if a year range written in a line fails normalization under the flags,
\* wherever it stands in the year list, the line does not decompose: the one-line
\* input parses to the opaque variant, never to a decomposed statement that leaves
\* the range out of the years or takes it into the holder.
C25_FailedRangeGivesOpaque ==
    (written_parsed # None
        /\ \E k \in 1..Len(written_specs) : FailsNormalization(written_specs[k], options))
        => /\ written_parsed[1].status = "ok"
           /\ written_parsed[1].val.kind = "Complex"

\* The year the default heuristic gives for a raw year
DefaultFourDigit(ye) ==
    IF ye.kind = "TwoDigit" THEN (IF ye.y < 60 THEN 2000 ELSE 1900) + ye.y ELSE ye.y

EqualRaw(spec) == spec.raw[1] = spec.raw[2]

\* The line decomposed with one year specifier for each specifier written
DecomposedInFull ==
    /\ written_parsed[1].status = "ok"
    /\ written_parsed[1].val.kind = "Decomposable"
    /\ Len(written_parsed[1].val.lines[1].years) = Len(written_specs)

\* C26: a specifier whose raw begin and end are equal (every specifier written as
\* one year included) gives a single year by the default heuristic under every
\* combination of the flags: the range normalization and its flags are not
\* consulted.
C26_EqualPairIsSingleYear ==
    written_parsed # None =>
        /\ (\A k \in 1..Len(written_specs) : EqualRaw(written_specs[k])) => DecomposedInFull
        /\ DecomposedInFull =>
               \A k \in 1..Len(written_specs) :
                   EqualRaw(written_specs[k]) =>
                       written_parsed[1].val.lines[1].years[k]
                           = SingleYear(DefaultFourDigit(written_specs[k].raw[1]))

C26_Witness ==
    /\ pc = "read"
    /\ options = DefaultOptions
    /\ Len(written_specs) = 2
    /\ written_specs[1].text = <<"9", "5">>
    /\ written_specs[2].text = <<"2", "0", "-", "2", "0">>
    /\ written_parsed =
           Some(Ok(Decomposable([years |-> <<SingleYear(1995), SingleYear(2020)>>,
                                 holder |-> <<"F", "o", "o">>])))

(***************************************************************************)
(* Soundness of the promotion (SpecInsert)                                 *)
(***************************************************************************)
\* s is a proper prefix of t
ProperPrefix(s, t) == Len(s) < Len(t) /\ SubSeq(t, 1, Len(s)) = s

\* No path the records insert is a proper prefix of another inserted path
NoInsertedPathBelowAnother ==
    \A i, j \in 1..Len(file_records) :
        ~ ProperPrefix(InsertedSegments(file_records[i]), InsertedSegments(file_records[j]))

\* The leaves of the subtree of node n
LeavesBelow(arena, n) ==
    {l \in 1..Len(arena) : arena[l].children = << >> /\ n \in AncestorsOf(arena, l)}

\* Every node with children that carries a metadata id covers only leaves with that id
PromotionSound(arena) ==
    \A n \in 1..Len(arena) :
        (arena[n].children # << >> /\ arena[n].metadata # None)
            => \A l \in LeavesBelow(arena, n) : arena[l].metadata = arena[n].metadata

\* C27: after propagate_metadata on a tree built by insertions in which no
\* inserted path is a proper prefix of another, every node with children that
\* carries metadata id m has all the leaves of its subtree carrying m, so the
\* wildcard pattern of a directory covers no file with other metadata.
C27_PromotionSound ==
    (pc \in {"propagated", "emitted"} /\ NoInsertedPathBelowAnother)
        => PromotionSound(cdt.tree_arena)

C27_Witness ==
    /\ pc = "propagated"
    /\ NoInsertedPathBelowAnother
    /\ Len(file_records) = 3
    /\ file_records[1].file_name = <<"d", "/", "a", "/", "b">>
    /\ file_records[2].file_name = <<"d", "/", "c">>
    /\ file_records[3].file_name = <<"e">>
    /\ file_records[1].copyright_text = file_records[2].copyright_text
    /\ file_records[3].copyright_text # file_records[1].copyright_text
    /\ cdt.tree_arena[1].metadata = None
    /\ cdt.tree_arena[2].metadata = Some(0)
    /\ cdt.tree_arena[3].metadata = Some(0)
    /\ get_pattern(cdt.tree_arena, 2) = <<".", "/", "d", "/", "*">>
    /\ LeavesBelow(cdt.tree_arena, 2) = {4, 5}

(***************************************************************************)
(* Containment between three parsed statements (SpecTransitive)            *)
(***************************************************************************)
\* C30: containment is transitive on parser output: for all statements a, b, c
\* returned by successful parses, if a.contains(b) and b.contains(c) then
\* a.contains(c).
C30_ContainsTransitive ==
    pc = "compared" =>
        ((trans_contains[1].ab /\ trans_contains[1].bc) => trans_contains[1].ac)

C30_Witness ==
    /\ pc = "compared"
    /\ trans_contains = Some([ab |-> TRUE, bc |-> TRUE, ac |-> TRUE])
    /\ trans_parsed[1].val.kind = "MultilineDecomposable"
    /\ trans_parsed[2].val = Decomposable([years |-> <<ClosedRange(2019, 2023)>>, holder |-> <<"F", "o", "o">>])
    /\ trans_parsed[3].val = Decomposable([years |-> <<SingleYear(2020), SingleYear(2022)>>, holder |-> <<"F", "o", "o">>])

====
